---------------------------- MODULE Spec2Model ----------------------------
(***************************************************************************)
(* Model of nanobot's routed LLM provider and of its subagent manager      *)
(* (src/nanobot/providers/routed_provider.py, src/nanobot/config/schema.py,*)
(* src/nanobot/agent/subagent.py)                                          *)
(*                                                                         *)
(* Conventions                                                             *)
(*  - An optional value (Python `X | None`) is a sequence: <<>> is None,   *)
(*    <<x>> is the value x.  An optional/empty string is "" (falsy).       *)
(*  - A model id is the sequence of its "/"-separated lower-case tokens:   *)
(*    "bedrock/nova" is <<"bedrock", "nova">>.  `kw in model` is token     *)
(*    membership.                                                          *)
(*  - A text is a record [words, len, qmarks, multi]: the keywords that    *)
(*    occur in it (as substrings, case-insensitively), its length in       *)
(*    characters, its number of "?" and whether a multi-step pattern       *)
(*    matches it.                                                          *)
(*  - Floats are fixed point: dimension scores in 1/10, weights in 1/100,  *)
(*    weighted scores, boundaries and distances in 1/1000, confidences in  *)
(*    whole percent (rounded down).                                        *)
(***************************************************************************)
EXTENDS Integers, Sequences, FiniteSets, TLC

VARIABLES
    config,             \* Config: providers section and agents.defaults (immutable)
    scoring_config,     \* QueryRouter.scoring_config (immutable)
    router,             \* QueryRouter: default_target, global_fallback_targets, tier_targets
    routing_enabled,    \* RoutedLLMProvider.routing_enabled
    default_target,     \* RoutedLLMProvider._default_target
    provider_name,      \* RoutedLLMProvider.provider_name (last successful provider)
    providers_cache,    \* RoutedLLMProvider._providers_cache: key -> client
    constructed,        \* every LiteLLMProvider constructed so far, in order
    calls,              \* the chat coroutines: one record per call
    decided,            \* the first direct router.decide(...) call: arguments and result
    redecided,          \* a later router.decide(...) call with the same arguments
    classified,         \* the direct classify_by_rules(...) calls: arguments and results
    looked,             \* the direct _get_provider(...) calls: argument, locals and result
    _running_tasks,     \* SubagentManager._running_tasks: the task ids registered
    bus,                \* the inbound messages published on the bus, in order
    tasks               \* the subagent runs spawned so far: one record per task id

vars == <<config, scoring_config, router, routing_enabled, default_target,
          provider_name, providers_cache, constructed, calls, decided, redecided,
          classified, looked, _running_tasks, bus, tasks>>

-----------------------------------------------------------------------------
(* Bounds of the model *)

\* Number of chat calls issued on the one dispatcher (they may overlap).
MaxCalls == 2

NoneV == <<>>
Some(x) == <<x>>
IsNone(o) == o = <<>>
Val(o) == o[1]

Max(a, b) == IF a >= b THEN a ELSE b
Min(a, b) == IF a <= b THEN a ELSE b

RECURSIVE SeqToSet(_)
SeqToSet(s) == IF s = <<>> THEN {} ELSE {Head(s)} \cup SeqToSet(Tail(s))

Take(s, n) == SubSeq(s, 1, Min(n, Len(s)))

-----------------------------------------------------------------------------
(* Route targets *)

RouteTarget(model, provider) == [model |-> model, provider |-> provider]

T_gpt_openai     == RouteTarget(<<"gpt">>, "openai")
T_gpt_noprov     == RouteTarget(<<"gpt">>, "")
T_claude         == RouteTarget(<<"claude">>, "anthropic")
T_llama_acme     == RouteTarget(<<"llama">>, "acme")
T_bedrock_groq   == RouteTarget(<<"bedrock", "nova">>, "groq")
T_mini_openai    == RouteTarget(<<"gpt", "mini">>, "openai")

-----------------------------------------------------------------------------
(* Config: provider lookup (schema.py) *)

\* nanobot.providers.registry.PROVIDERS, in registry order.
PROVIDERS ==
    << [name |-> "openrouter", keywords |-> {"openrouter"}, is_oauth |-> FALSE,
        is_gateway |-> TRUE, default_api_base |-> "https://openrouter.ai/api/v1"],
       [name |-> "anthropic", keywords |-> {"anthropic", "claude"}, is_oauth |-> FALSE,
        is_gateway |-> FALSE, default_api_base |-> ""],
       [name |-> "openai", keywords |-> {"openai", "gpt"}, is_oauth |-> FALSE,
        is_gateway |-> FALSE, default_api_base |-> ""],
       [name |-> "openai_codex", keywords |-> {"openai-codex", "codex"}, is_oauth |-> TRUE,
        is_gateway |-> FALSE, default_api_base |-> "https://chatgpt.com/backend-api"],
       [name |-> "groq", keywords |-> {"groq"}, is_oauth |-> FALSE,
        is_gateway |-> FALSE, default_api_base |-> ""] >>

ProviderConfig(api_key, api_base) == [api_key |-> api_key, api_base |-> api_base]

\* str.strip().lower().replace("-", "_") on the provider names of the model.
NormalizeChars(name) ==
    CASE name = "OpenAI" -> "openai"
      [] name = "openai-codex" -> "openai_codex"
      [] name = " " -> ""
      [] OTHER -> name

_normalize_provider_name(name) ==
    IF name = "" THEN NoneV
    ELSE LET n == NormalizeChars(name) IN IF n = "" THEN NoneV ELSE Some(n)

\* getattr(self.providers, name, None)
ProvidersGetattr(cfg, name) ==
    IF name \in DOMAIN cfg.providers THEN Some(cfg.providers[name]) ELSE NoneV

ModelPrefix(model) == IF Len(model) > 1 THEN model[1] ELSE ""

\* The first registry entry, in registry order, among the entries whose
\* indices are in hits (those satisfying the loop's test), or None.
FirstSpec(hits) ==
        IF hits = {} THEN NoneV
        ELSE Some(PROVIDERS[CHOOSE i \in hits : \A j \in hits : i <= j])

\* a or b, for optional values
OrNone(a, b) == IF ~IsNone(a) THEN a ELSE b

\* The name of an optional registry entry.
NameOf(spec) == IF IsNone(spec) THEN NoneV ELSE Some(Val(spec).name)

\* Config._match_provider: the registry name of the matched provider, or None.
\* model is an optional model id.
_match_provider(cfg, model) ==
    LET model_lower == IF IsNone(model) THEN cfg.defaults_model ELSE Val(model)
        explicit == _normalize_provider_name(cfg.defaults_provider)
        Configured(spec) == spec.name \in DOMAIN cfg.providers
        HasKey(spec) == spec.is_oauth \/ cfg.providers[spec.name].api_key # ""
        ByPrefix(spec) == /\ Configured(spec)
                          /\ ModelPrefix(model_lower) # ""
                          /\ ModelPrefix(model_lower) = spec.name
                          /\ HasKey(spec)
        ByKeyword(spec) == /\ Configured(spec)
                           /\ \E kw \in spec.keywords : kw \in SeqToSet(model_lower)
                           /\ HasKey(spec)
        Fallback(spec) == /\ ~spec.is_oauth
                          /\ Configured(spec)
                          /\ cfg.providers[spec.name].api_key # ""
        Hits(Test(_)) == {i \in 1..Len(PROVIDERS) : Test(PROVIDERS[i])}
    IN  IF /\ ~IsNone(explicit)
           /\ (IsNone(model) \/ model_lower = cfg.defaults_model)
           /\ ~IsNone(ProvidersGetattr(cfg, Val(explicit)))
        THEN explicit
        ELSE OrNone(NameOf(FirstSpec(Hits(ByPrefix))),
                    OrNone(NameOf(FirstSpec(Hits(ByKeyword))),
                           NameOf(FirstSpec(Hits(Fallback)))))

\* Config.get_provider_name(model): "" stands for None (both are falsy).
get_provider_name(cfg, model) ==
    LET name == _match_provider(cfg, model) IN IF IsNone(name) THEN "" ELSE Val(name)

\* Config.get_provider_by_name
get_provider_by_name(cfg, name) ==
    LET normalized == _normalize_provider_name(name)
    IN  IF IsNone(normalized) THEN NoneV ELSE ProvidersGetattr(cfg, Val(normalized))

-----------------------------------------------------------------------------
(* Texts *)

Text(words, len, qmarks, multi) ==
    [words |-> words, len |-> len, qmarks |-> qmarks, multi |-> multi]

EmptyText == Text({}, 0, 0, FALSE)

\* f"{a} {b}": the two texts joined by one space.
JoinText(a, b) ==
    Text(a.words \cup b.words, a.len + 1 + b.len, a.qmarks + b.qmarks, a.multi \/ b.multi)

\* system_prompt or '' (system_prompt is an optional text)
OrEmpty(t) == IF IsNone(t) THEN EmptyText ELSE Val(t)

-----------------------------------------------------------------------------
(* Scoring config (schema.py, RoutingScoringConfig defaults) *)

code_keywords ==
    << "code", "function", "class", "api", "debug", "bug", "error", "stack trace",
       "python", "javascript", "typescript", "sql", "refactor" >>
reasoning_keywords == << "reason", "step by step", "prove", "analyze", "compare", "why" >>
simple_keywords == << "quick", "brief", "simple", "short answer", "tldr" >>
technical_keywords ==
    << "architecture", "distributed", "latency", "throughput", "protocol",
       "complexity", "optimization", "tradeoff" >>
creative_keywords == << "story", "poem", "creative", "brainstorm", "rewrite", "tone" >>
imperative_verbs == << "build", "implement", "design", "create", "generate", "optimize" >>
constraint_indicators ==
    << "must", "should", "cannot", "don't", "without", "under", "limit", "constraint" >>
output_format_keywords ==
    << "json", "table", "markdown", "yaml", "csv", "bullet points", "format" >>
reference_keywords == << "cite", "reference", "source", "link", "paper", "documentation" >>
negation_keywords == << "not", "never", "avoid", "exclude", "without" >>
domain_specific_keywords ==
    << "kubernetes", "terraform", "postgres", "redis", "pydantic", "litellm",
       "oauth", "grpc", "cuda", "vector database" >>
agentic_task_keywords ==
    << "plan", "execute", "iterate", "multi-step", "autonomous", "workflow",
       "orchestrate", "tool call", "agent" >>

\* dimension_weights, in 1/100
dimension_weights ==
    [tokenCount |-> 8, codePresence |-> 14, reasoningMarkers |-> 14, technicalTerms |-> 8,
     creativeMarkers |-> 4, simpleIndicators |-> 16, multiStepPatterns |-> 6,
     questionComplexity |-> 5, imperativeVerbs |-> 5, constraintCount |-> 5,
     outputFormat |-> 4, referenceComplexity |-> 3, negationComplexity |-> 3,
     domainSpecificity |-> 5, agenticTask |-> 10]

\* TokenCountThresholdsConfig
TokenSimple == 400
TokenComplex == 2500
\* TierBoundariesConfig, in 1/1000
SimpleMedium == -100
MediumComplex == 150
ComplexReasoning == 400
\* confidence_steepness, and confidence_threshold in percent
ConfidenceSteepness == 5
ConfidenceThreshold == 62

DefaultScoringConfig ==
    [token_count_thresholds |-> [simple |-> TokenSimple, complex |-> TokenComplex],
     dimension_weights |-> dimension_weights,
     tier_boundaries |-> [simple_medium |-> SimpleMedium,
                          medium_complex |-> MediumComplex,
                          complex_reasoning |-> ComplexReasoning],
     confidence_steepness |-> ConfidenceSteepness,
     confidence_threshold |-> ConfidenceThreshold]

-----------------------------------------------------------------------------
(* Dimension scorers (routed_provider.py) *)

DimensionScore(name, score, signal) == [name |-> name, score |-> score, signal |-> signal]

\* A signal string: its label, the keywords it lists and the number it names.
Signal(label, matches, n) == [label |-> label, matches |-> matches, n |-> n]

\* Mutant of score_token_count: the thresholds themselves score non-zero.
Mutant_score_token_count_inclusive(estimated_tokens, thresholds) ==
    IF estimated_tokens <= thresholds.simple
    THEN DimensionScore("tokenCount", -10, Some(Signal("short", <<>>, estimated_tokens)))
    ELSE IF estimated_tokens >= thresholds.complex
    THEN DimensionScore("tokenCount", 10, Some(Signal("long", <<>>, estimated_tokens)))
    ELSE DimensionScore("tokenCount", 0, NoneV)

score_token_count(estimated_tokens, thresholds) ==
    IF estimated_tokens < thresholds.simple
    THEN DimensionScore("tokenCount", -10, Some(Signal("short", <<>>, estimated_tokens)))
    ELSE IF estimated_tokens > thresholds.complex
    THEN DimensionScore("tokenCount", 10, Some(Signal("long", <<>>, estimated_tokens)))
    ELSE DimensionScore("tokenCount", 0, NoneV)

\* [kw for kw in keywords if kw.lower() in text]
Matches(text, keywords) == SelectSeq(keywords, LAMBDA kw : kw \in text.words)

\* Mutant of score_keyword_match: the low threshold is tested first.
Mutant_score_keyword_match_low_first(text, keywords, name, signal_label, thresholds, scores) ==
    LET matches == Matches(text, keywords)
    IN  IF Len(matches) >= thresholds.low
        THEN DimensionScore(name, scores.low, Some(Signal(signal_label, Take(matches, 3), 0)))
        ELSE IF Len(matches) >= thresholds.high
        THEN DimensionScore(name, scores.high, Some(Signal(signal_label, Take(matches, 3), 0)))
        ELSE DimensionScore(name, scores.none, NoneV)

score_keyword_match(text, keywords, name, signal_label, thresholds, scores) ==
    LET matches == Matches(text, keywords)
    IN  IF Len(matches) >= thresholds.high
        THEN DimensionScore(name, scores.high, Some(Signal(signal_label, Take(matches, 3), 0)))
        ELSE IF Len(matches) >= thresholds.low
        THEN DimensionScore(name, scores.low, Some(Signal(signal_label, Take(matches, 3), 0)))
        ELSE DimensionScore(name, scores.none, NoneV)

score_multi_step(text) ==
    IF text.multi
    THEN DimensionScore("multiStepPatterns", 5, Some(Signal("multi-step", <<>>, 0)))
    ELSE DimensionScore("multiStepPatterns", 0, NoneV)

score_question_complexity(prompt) ==
    LET count == prompt.qmarks
    IN  IF count > 3
        THEN DimensionScore("questionComplexity", 5, Some(Signal("questions", <<>>, count)))
        ELSE DimensionScore("questionComplexity", 0, NoneV)

\* Returns <<DimensionScore, agentic_score>>.
score_agentic_task(text, keywords) ==
    LET matches == Matches(text, keywords)
        match_count == Len(matches)
        signals == Take(matches, 3)
    IN  IF match_count >= 4
        THEN <<DimensionScore("agenticTask", 10, Some(Signal("agentic", signals, 0))), 10>>
        ELSE IF match_count >= 3
        THEN <<DimensionScore("agenticTask", 6, Some(Signal("agentic", signals, 0))), 6>>
        ELSE IF match_count >= 1
        THEN <<DimensionScore("agenticTask", 2, Some(Signal("agentic-light", signals, 0))), 2>>
        ELSE <<DimensionScore("agenticTask", 0, NoneV), 0>>

\* 1000 * ln(p / (100 - p)), rounded up, for p = 1..99: the logistic function
\* reaches p percent exactly when steepness * distance reaches LogitTable[p].
\* The table increases, so the percents reached are 1..confidence.
LogitTable ==
    << -4595, -3891, -3476, -3178, -2944, -2751, -2586, -2442, -2313, -2197,
       -2090, -1992, -1900, -1815, -1734, -1658, -1585, -1516, -1450, -1386,
       -1324, -1265, -1208, -1152, -1098, -1045, -994, -944, -895, -847,
       -800, -753, -708, -663, -619, -575, -532, -489, -447, -405,
       -363, -322, -281, -241, -200, -160, -120, -80, -40, 0,
       41, 81, 121, 161, 201, 242, 282, 323, 364, 406,
       448, 490, 533, 576, 620, 664, 709, 754, 801, 848,
       896, 945, 995, 1046, 1099, 1153, 1209, 1266, 1325, 1387,
       1451, 1517, 1586, 1659, 1735, 1816, 1901, 1993, 2091, 2198,
       2314, 2443, 2587, 2752, 2945, 3179, 3477, 3892, 4596 >>

\* 1 / (1 + math.exp(-steepness * distance)), in whole percent (rounded down).
calibrate_confidence(distance, steepness) ==
    LET x == steepness * distance
    IN  Cardinality({p \in 1..99 : x >= LogitTable[p]})

-----------------------------------------------------------------------------
(* QueryRouter *)

ScoringResult(score, tier, confidence, signals, agentic_score) ==
    [score |-> score, tier |-> tier, confidence |-> confidence,
     signals |-> signals, agentic_score |-> agentic_score]

\* dict.get(name, 0.0)
WeightOf(weights, name) == IF name \in DOMAIN weights THEN weights[name] ELSE 0

RECURSIVE WeightedSum(_, _)
WeightedSum(dimensions, weights) ==
    IF dimensions = <<>> THEN 0
    ELSE Head(dimensions).score * WeightOf(weights, Head(dimensions).name)
         + WeightedSum(Tail(dimensions), weights)

RECURSIVE SignalsOf(_)
SignalsOf(dimensions) ==
    IF dimensions = <<>> THEN <<>>
    ELSE IF IsNone(Head(dimensions).signal) THEN SignalsOf(Tail(dimensions))
    ELSE <<Val(Head(dimensions).signal)>> \o SignalsOf(Tail(dimensions))

\* The dimension list of classify_by_rules, in evaluation order.
Dimensions(cfg, prompt, system_prompt, estimated_tokens) ==
    LET text == JoinText(OrEmpty(system_prompt), prompt)
        user_text == prompt
        LH(l, h) == [low |-> l, high |-> h]
        NLH(n, l, h) == [none |-> n, low |-> l, high |-> h]
    IN  << score_token_count(estimated_tokens, cfg.token_count_thresholds),
           score_keyword_match(text, code_keywords, "codePresence", "code",
                               LH(1, 2), NLH(0, 5, 10)),
           score_keyword_match(user_text, reasoning_keywords, "reasoningMarkers", "reasoning",
                               LH(1, 2), NLH(0, 7, 10)),
           score_keyword_match(text, technical_keywords, "technicalTerms", "technical",
                               LH(2, 4), NLH(0, 5, 10)),
           score_keyword_match(text, creative_keywords, "creativeMarkers", "creative",
                               LH(1, 2), NLH(0, 5, 7)),
           score_keyword_match(text, simple_keywords, "simpleIndicators", "simple",
                               LH(1, 2), NLH(0, -10, -10)),
           score_multi_step(text),
           score_question_complexity(prompt),
           score_keyword_match(text, imperative_verbs, "imperativeVerbs", "imperative",
                               LH(1, 2), NLH(0, 3, 5)),
           score_keyword_match(text, constraint_indicators, "constraintCount", "constraints",
                               LH(1, 3), NLH(0, 3, 7)),
           score_keyword_match(text, output_format_keywords, "outputFormat", "format",
                               LH(1, 2), NLH(0, 4, 7)),
           score_keyword_match(text, reference_keywords, "referenceComplexity", "references",
                               LH(1, 2), NLH(0, 3, 5)),
           score_keyword_match(text, negation_keywords, "negationComplexity", "negation",
                               LH(2, 3), NLH(0, 3, 5)),
           score_keyword_match(text, domain_specific_keywords, "domainSpecificity",
                               "domain-specific", LH(1, 2), NLH(0, 5, 8)),
           score_agentic_task(text, agentic_task_keywords)[1] >>

\* Mutant of TierOfScore: a score on a boundary belongs to the lower tier.
Mutant_TierOfScore_inclusive(weighted_score, boundaries) ==
    IF weighted_score <= boundaries.simple_medium
    THEN <<"SIMPLE", boundaries.simple_medium - weighted_score>>
    ELSE IF weighted_score <= boundaries.medium_complex
    THEN <<"MEDIUM", Min(weighted_score - boundaries.simple_medium,
                         boundaries.medium_complex - weighted_score)>>
    ELSE IF weighted_score <= boundaries.complex_reasoning
    THEN <<"COMPLEX", Min(weighted_score - boundaries.medium_complex,
                          boundaries.complex_reasoning - weighted_score)>>
    ELSE <<"REASONING", weighted_score - boundaries.complex_reasoning>>

\* Mutant of TierOfScore: the SIMPLE distance is taken with the sign of the
\* score minus the boundary.
Mutant_TierOfScore_signed(weighted_score, boundaries) ==
    IF weighted_score < boundaries.simple_medium
    THEN <<"SIMPLE", weighted_score - boundaries.simple_medium>>
    ELSE IF weighted_score < boundaries.medium_complex
    THEN <<"MEDIUM", Min(weighted_score - boundaries.simple_medium,
                         boundaries.medium_complex - weighted_score)>>
    ELSE IF weighted_score < boundaries.complex_reasoning
    THEN <<"COMPLEX", Min(weighted_score - boundaries.medium_complex,
                          boundaries.complex_reasoning - weighted_score)>>
    ELSE <<"REASONING", weighted_score - boundaries.complex_reasoning>>

\* Mutant of TierOfScore: the MEDIUM comparison is turned round.
Mutant_TierOfScore_reversed(weighted_score, boundaries) ==
    IF weighted_score < boundaries.simple_medium
    THEN <<"SIMPLE", boundaries.simple_medium - weighted_score>>
    ELSE IF weighted_score > boundaries.medium_complex
    THEN <<"MEDIUM", Min(weighted_score - boundaries.simple_medium,
                         weighted_score - boundaries.medium_complex)>>
    ELSE IF weighted_score < boundaries.complex_reasoning
    THEN <<"COMPLEX", Min(weighted_score - boundaries.simple_medium,
                          boundaries.complex_reasoning - weighted_score)>>
    ELSE <<"REASONING", weighted_score - boundaries.complex_reasoning>>

\* The tier and boundary distance of the four-way partition: <<tier, distance>>.
TierOfScore(weighted_score, boundaries) ==
    IF weighted_score < boundaries.simple_medium
    THEN <<"SIMPLE", boundaries.simple_medium - weighted_score>>
    ELSE IF weighted_score < boundaries.medium_complex
    THEN <<"MEDIUM", Min(weighted_score - boundaries.simple_medium,
                         boundaries.medium_complex - weighted_score)>>
    ELSE IF weighted_score < boundaries.complex_reasoning
    THEN <<"COMPLEX", Min(weighted_score - boundaries.medium_complex,
                          boundaries.complex_reasoning - weighted_score)>>
    ELSE <<"REASONING", weighted_score - boundaries.complex_reasoning>>

\* Mutant of ReasoningMatches: the keywords are looked for in the whole text.
Mutant_ReasoningMatches_whole_text(text, user_text) == Matches(text, reasoning_keywords)

\* [kw for kw in config.reasoning_keywords if kw.lower() in user_text]
ReasoningMatches(text, user_text) == Matches(user_text, reasoning_keywords)

\* Mutant of GatedTier: the tier is reported whatever the confidence.
Mutant_GatedTier_open(tier, confidence, threshold) == tier

\* The tier reported for the confidence: None ("") below the threshold.
GatedTier(tier, confidence, threshold) == IF confidence < threshold THEN "" ELSE tier

\* classify_by_rules once the tier of the score and its confidence are known.
ClassifyGate(cfg, weighted_score, signals, agentic_score, tier, confidence) ==
    ScoringResult(weighted_score, GatedTier(tier, confidence, cfg.confidence_threshold),
                  confidence, signals, agentic_score)

\* classify_by_rules below the reasoning override: the tier boundaries and the
\* calibrated confidence of the distance td[2] to the nearest one.
ClassifyTier(cfg, weighted_score, signals, agentic_score, td) ==
    ClassifyGate(cfg, weighted_score, signals, agentic_score, td[1],
                 calibrate_confidence(td[2], cfg.confidence_steepness))

\* Mutant of ClassifyScore: the override result leaves agentic_score at its
\* default.
Mutant_ClassifyScore_drops_agentic(cfg, weighted_score, signals, agentic_score, reasoning_matches) ==
    IF Len(reasoning_matches) >= 2
    THEN ScoringResult(weighted_score, "REASONING",
                       Max(calibrate_confidence(Max(weighted_score, 300),
                                                cfg.confidence_steepness), 85),
                       signals, 0)
    ELSE ClassifyTier(cfg, weighted_score, signals, agentic_score,
                      TierOfScore(weighted_score, cfg.tier_boundaries))

\* classify_by_rules once the weighted score is known: the reasoning override,
\* else the tier boundaries.
ClassifyScore(cfg, weighted_score, signals, agentic_score, reasoning_matches) ==
    IF Len(reasoning_matches) >= 2
    THEN ScoringResult(weighted_score, "REASONING",
                       Max(calibrate_confidence(Max(weighted_score, 300),
                                                cfg.confidence_steepness), 85),
                       signals, agentic_score)
    ELSE ClassifyTier(cfg, weighted_score, signals, agentic_score,
                      TierOfScore(weighted_score, cfg.tier_boundaries))

\* Mutant of ClassifyDimensions: the signal of the last dimension is left out.
Mutant_ClassifyDimensions_drops_last_signal(cfg, text, user_text, dimensions) ==
    ClassifyScore(cfg, WeightedSum(dimensions, cfg.dimension_weights),
                  SignalsOf(SubSeq(dimensions, 1, Len(dimensions) - 1)),
                  score_agentic_task(text, agentic_task_keywords)[2],
                  ReasoningMatches(text, user_text))

\* classify_by_rules once the dimensions are scored.
ClassifyDimensions(cfg, text, user_text, dimensions) ==
    ClassifyScore(cfg, WeightedSum(dimensions, cfg.dimension_weights),
                  SignalsOf(dimensions),
                  score_agentic_task(text, agentic_task_keywords)[2],
                  ReasoningMatches(text, user_text))

\* QueryRouter.classify_by_rules.  tier is "" for None.
classify_by_rules(cfg, prompt, system_prompt, estimated_tokens) ==
    ClassifyDimensions(cfg, JoinText(OrEmpty(system_prompt), prompt), prompt,
                       Dimensions(cfg, prompt, system_prompt, estimated_tokens))

\* Mutant of _get_tier_target: every tier is served by the REASONING entry.
Mutant_get_tier_target_reasoning(r, tier) == r.tier_targets.reasoning

\* QueryRouter._get_tier_target: an optional RoutingTierTargetConfig
_get_tier_target(r, tier) ==
    IF tier = "SIMPLE" THEN r.tier_targets.simple
    ELSE IF tier = "MEDIUM" THEN r.tier_targets.medium
    ELSE IF tier = "COMPLEX" THEN r.tier_targets.complex
    ELSE r.tier_targets.reasoning

RECURSIVE DedupeLoop(_, _, _)
DedupeLoop(targets, seen, unique) ==
    IF targets = <<>> THEN unique
    ELSE LET target == Head(targets)
             key == <<target.provider, target.model>>
         IN  IF key \in seen
             THEN DedupeLoop(Tail(targets), seen, unique)
             ELSE DedupeLoop(Tail(targets), seen \cup {key}, Append(unique, target))

\* Mutant of _dedupe_targets: of a repeated pair the last occurrence is kept.
Mutant_dedupe_keeps_last(targets) ==
    LET Rev(s) == [i \in 1..Len(s) |-> s[Len(s) + 1 - i]]
    IN  Rev(DedupeLoop(Rev(targets), {}, <<>>))

\* Mutant of _dedupe_targets: the targets are passed through as they are.
Mutant_dedupe_keeps_all(targets) == targets

\* QueryRouter._dedupe_targets
_dedupe_targets(targets) == DedupeLoop(targets, {}, <<>>)

RouteDecision(primary, chain, reason, tier, score, confidence, signals, agentic_score) ==
    [primary |-> primary, chain |-> chain, reason |-> reason, tier |-> tier,
     score |-> score, confidence |-> confidence, signals |-> signals,
     agentic_score |-> agentic_score]

\* Mutant of EffectiveDefault: the default is taken on the provider that
\* succeeded last.
Mutant_EffectiveDefault_last_provider(r, preferred_target) ==
    IF IsNone(preferred_target) THEN RouteTarget(r.default_target.model, provider_name)
    ELSE Val(preferred_target)

\* Mutant of EffectiveDefault: the preferred target is ignored.
Mutant_EffectiveDefault_ignores_preferred(r, preferred_target) == r.default_target

\* preferred_target or self.default_target
EffectiveDefault(r, preferred_target) ==
    IF IsNone(preferred_target) THEN r.default_target ELSE Val(preferred_target)

\* decide with routing disabled: the classifier is not called.
ForcedDecision(r, effective_default) ==
    RouteDecision(effective_default,
                  _dedupe_targets(<<effective_default>> \o r.global_fallback_targets),
                  "routing disabled", "", 0, 0, NoneV, 0)

\* Mutant of RoutedDecision: a tier without route table entry is reported as
\* an ambiguous classification.
Mutant_RoutedDecision_drops_tier(r, effective_default, scoring, tier_target) ==
    LET hasTier == scoring.tier # "" /\ ~IsNone(tier_target)
        primary == IF hasTier THEN Val(tier_target).primary ELSE effective_default
        tier_fallback == IF hasTier THEN Val(tier_target).fallback ELSE <<>>
    IN  RouteDecision(primary,
                      _dedupe_targets(<<primary>> \o tier_fallback
                                        \o r.global_fallback_targets),
                      IF hasTier THEN "weighted scoring -> tier"
                      ELSE "weighted scoring ambiguous, using default",
                      IF hasTier THEN scoring.tier ELSE "",
                      scoring.score, scoring.confidence,
                      Some(scoring.signals), scoring.agentic_score)

\* decide once the route table entry of the classified tier is looked up
\* (tier_target is None for tier None and for a tier without entry).  The
\* reason keeps the fixed part of the message; score and confidence are
\* fields of the decision.
RoutedDecision(r, effective_default, scoring, tier_target) ==
    LET hasTier == scoring.tier # "" /\ ~IsNone(tier_target)
        primary == IF hasTier THEN Val(tier_target).primary ELSE effective_default
        tier_fallback == IF hasTier THEN Val(tier_target).fallback ELSE <<>>
        reason == IF scoring.tier = "" THEN "weighted scoring ambiguous, using default"
                  ELSE IF hasTier THEN "weighted scoring -> tier"
                  ELSE "weighted scoring -> tier, but tier target missing; using default"
    IN  RouteDecision(primary,
                      _dedupe_targets(<<primary>> \o tier_fallback
                                        \o r.global_fallback_targets),
                      reason, scoring.tier, scoring.score, scoring.confidence,
                      Some(scoring.signals), scoring.agentic_score)

\* decide with routing enabled, once the request is classified.
ScoredDecision(r, effective_default, scoring) ==
    RoutedDecision(r, effective_default, scoring,
                   IF scoring.tier = "" THEN NoneV ELSE _get_tier_target(r, scoring.tier))

\* QueryRouter.decide.  query and system_prompt are optional texts,
\* preferred_target an optional RouteTarget.
decide(r, cfg, query, system_prompt, estimated_tokens, preferred_target, force_default) ==
    IF force_default
    THEN ForcedDecision(r, EffectiveDefault(r, preferred_target))
    ELSE ScoredDecision(r, EffectiveDefault(r, preferred_target),
                        classify_by_rules(cfg, OrEmpty(query), system_prompt,
                                          estimated_tokens))

-----------------------------------------------------------------------------
(* Config: API base (schema.py) *)

\* nanobot.providers.registry.find_by_name
find_by_name(name) ==
    FirstSpec({i \in 1..Len(PROVIDERS) : PROVIDERS[i].name = name})

\* Config.get_api_base(model); "" stands for None.
get_api_base(cfg, model) ==
    LET name == _match_provider(cfg, model)
        p == IF IsNone(name) THEN NoneV ELSE ProvidersGetattr(cfg, Val(name))
        spec == IF IsNone(name) THEN NoneV ELSE find_by_name(Val(name))
    IN  IF ~IsNone(p) /\ Val(p).api_base # "" THEN Val(p).api_base
        ELSE IF /\ ~IsNone(spec)
                /\ Val(spec).is_gateway
                /\ Val(spec).default_api_base # ""
        THEN Val(spec).default_api_base
        ELSE ""

\* Config.get_api_base_for_provider(provider_name, model); "" stands for None.
get_api_base_for_provider(cfg, name, model) ==
    LET normalized == _normalize_provider_name(name)
        p == get_provider_by_name(cfg, Val(normalized))
        spec == find_by_name(Val(normalized))
    IN  IF IsNone(normalized) THEN ""
        ELSE IF ~IsNone(p) /\ Val(p).api_base # "" THEN Val(p).api_base
        ELSE IF ~IsNone(spec) /\ Val(spec).default_api_base # ""
        THEN Val(spec).default_api_base
        ELSE IF model # <<>> THEN get_api_base(cfg, Some(model))
        ELSE ""

-----------------------------------------------------------------------------
(* RoutedLLMProvider: the client cache *)

\* LiteLLMProvider(...): id is the serial number of the construction and
\* stands for the identity of the object.
LiteLLMProvider(id, api_key, api_base, default_model, name) ==
    [id |-> id, api_key |-> api_key, api_base |-> api_base,
     default_model |-> default_model, provider_name |-> name]

\* target.model.startswith("bedrock/")
StartsWithBedrock(model) == Len(model) > 1 /\ model[1] = "bedrock"

\* a or b, for strings
OrElse(a, b) == IF a # "" THEN a ELSE b

\* The provider name _get_provider resolves for a target ("" when none).
ResolveProviderName(cfg, target) ==
    OrElse(target.provider,
           OrElse(get_provider_name(cfg, Some(target.model)),
                  get_provider_name(cfg, NoneV)))

\* What _get_provider returns when it returns None: nothing changes.
Miss(cache, made) == [provider |-> NoneV, cache |-> cache, made |-> made]

\* The cached client of key is returned.
Hit(cache, made, key) == [provider |-> Some(cache[key]), cache |-> cache, made |-> made]

\* self._providers_cache[key] = provider; return provider
Insert(cache, made, key, provider) ==
    [provider |-> Some(provider),
     cache |-> [k \in DOMAIN cache \cup {key} |-> IF k = key THEN provider ELSE cache[k]],
     made |-> Append(made, provider)]

\* Mutant of Construct: a configuration without API key never gets a client.
Mutant_Construct_requires_key(cfg, cache, made, target, name, key, provider_cfg) ==
    IF IsNone(provider_cfg) THEN Miss(cache, made)
    ELSE IF Val(provider_cfg).api_key = ""
    THEN Miss(cache, made)
    ELSE Insert(cache, made, key,
                LiteLLMProvider(Len(made) + 1, Val(provider_cfg).api_key,
                                get_api_base_for_provider(cfg, name, target.model),
                                target.model, name))

\* _get_provider after the cache lookup missed: the client is constructed from
\* the provider configuration, when there is one with a key (or the model is a
\* bedrock/ model).
Construct(cfg, cache, made, target, name, key, provider_cfg) ==
    IF IsNone(provider_cfg) THEN Miss(cache, made)
    ELSE IF Val(provider_cfg).api_key = "" /\ ~StartsWithBedrock(target.model)
    THEN Miss(cache, made)
    ELSE Insert(cache, made, key,
                LiteLLMProvider(Len(made) + 1, Val(provider_cfg).api_key,
                                get_api_base_for_provider(cfg, name, target.model),
                                target.model, name))

\* Mutant of Lookup: no lookup of the cache before constructing.
Mutant_Lookup_none(cfg, cache, made, target, name) ==
    IF name = "" THEN Miss(cache, made)
    ELSE Construct(cfg, cache, made, target, name, <<name, target.model>>,
                   get_provider_by_name(cfg, name))

\* Mutant of Lookup: the cache is keyed by the provider name alone.
Mutant_Lookup_key_by_name(cfg, cache, made, target, name) ==
    IF name = "" THEN Miss(cache, made)
    ELSE IF <<name, <<>>>> \in DOMAIN cache THEN Hit(cache, made, <<name, <<>>>>)
    ELSE Construct(cfg, cache, made, target, name, <<name, <<>>>>,
                   get_provider_by_name(cfg, name))

\* _get_provider once the provider name is resolved.
Lookup(cfg, cache, made, target, name) ==
    IF name = "" THEN Miss(cache, made)
    ELSE IF <<name, target.model>> \in DOMAIN cache
    THEN Hit(cache, made, <<name, target.model>>)
    ELSE Construct(cfg, cache, made, target, name, <<name, target.model>>,
                   get_provider_by_name(cfg, name))

\* RoutedLLMProvider._get_provider: the optional client it returns, with the
\* cache and the list of constructed clients as it leaves them.
_get_provider(cfg, cache, made, target) ==
    Lookup(cfg, cache, made, target, ResolveProviderName(cfg, target))

-----------------------------------------------------------------------------
(* RoutedLLMProvider: messages and responses *)

Message(role, kind, text, parts) ==
    [role |-> role, kind |-> kind, text |-> text, parts |-> parts]
\* A message whose content is a string.
StrMessage(role, text) == Message(role, "str", text, <<>>)
\* A message whose content is a list of parts [type, text].
ListMessage(role, parts) == Message(role, "list", EmptyText, parts)
Part(type, text) == [type |-> type, text |-> text]

RECURSIVE JoinParts(_)
\* " ".join(text_parts), for a non-empty list
JoinParts(texts) ==
    IF Len(texts) = 1 THEN texts[1]
    ELSE JoinText(texts[1], JoinParts(Tail(texts)))

TextParts(parts) ==
    LET kept == SelectSeq(parts, LAMBDA item : item.type = "text")
    IN  [i \in 1..Len(kept) |-> kept[i].text]

\* Mutant of _extract_latest_user_message: the scan starts at the first message.
Mutant_extract_latest_user_message_forward(messages) ==
    LET texts == SelectSeq(messages, LAMBDA msg :
                     /\ msg.role = "user"
                     /\ msg.kind = "str" \/ (msg.kind = "list" /\ TextParts(msg.parts) # <<>>))
    IN  IF texts = <<>> THEN EmptyText
        ELSE IF texts[1].kind = "str" THEN texts[1].text
        ELSE JoinParts(TextParts(texts[1].parts))

RECURSIVE _extract_latest_user_message(_)
\* Scans the messages from the last one backwards.
_extract_latest_user_message(messages) ==
    IF messages = <<>> THEN EmptyText
    ELSE LET msg == messages[Len(messages)]
             rest == SubSeq(messages, 1, Len(messages) - 1)
         IN  IF msg.role # "user" THEN _extract_latest_user_message(rest)
             ELSE IF msg.kind = "str" THEN msg.text
             ELSE IF msg.kind = "list" /\ TextParts(msg.parts) # <<>>
             THEN JoinParts(TextParts(msg.parts))
             ELSE _extract_latest_user_message(rest)

RECURSIVE _extract_system_prompt(_)
\* An optional text.
_extract_system_prompt(messages) ==
    IF messages = <<>> THEN NoneV
    ELSE IF Head(messages).role = "system" /\ Head(messages).kind = "str"
    THEN Some(Head(messages).text)
    ELSE _extract_system_prompt(Tail(messages))

\* max(1, len(text) // 4)
_estimate_tokens(text) == Max(1, text.len \div 4)

\* LLMResponse.  content is the sequence of its parts (<<>> for None or ""),
\* model is <<>> when unset, origin is <<call, chain position>> of the backend
\* invocation that produced the object (<<call, 0>>: built by chat itself).
LLMResponse(content, finish_reason, model, provider, origin) ==
    [content |-> content, finish_reason |-> finish_reason, model |-> model,
     provider |-> provider, origin |-> origin]

ErrorPrefix == "Error calling LLM:"

\* Mutant of _is_provider_error: only the finish reason is looked at.
Mutant_is_provider_error_finish_only(response) == response.finish_reason = "error"

\* Mutant of _is_provider_error: every response is taken for a failure.
Mutant_is_provider_error_always(response) == TRUE

\* RoutedLLMProvider._is_provider_error
_is_provider_error(response) ==
    \/ response.finish_reason = "error"
    \/ response.content # <<>> /\ response.content[1] = ErrorPrefix

-----------------------------------------------------------------------------
(* RoutedLLMProvider.chat *)

Calls == 1..MaxCalls

\* One entry of a call's log: what chat did at chain position pos.
\*   "skip"    _get_provider returned None
\*   "invoke"  provider.chat(...) was started on client `client`
\*   "fail"    the invocation returned and was classified a backend failure
\*   "ok"      the invocation returned and was not classified a failure
\*   "raise"   the invocation raised
\*   "cancel"  the call was cancelled while the invocation was suspended
\* made tells whether the client was constructed by this lookup, resp is the
\* response as chat holds it (after the provider/model stamp).
Event(pos, ev, client, made, resp) ==
    [pos |-> pos, ev |-> ev, client |-> client, made |-> made, resp |-> resp]

IdleCall ==
    [pc |-> "idle", messages |-> <<>>, model |-> NoneV, decision |-> NoneV,
     idx |-> 0, provider |-> NoneV, last_error |-> NoneV, response |-> NoneV,
     log |-> <<>>]

\* Mutant of NextPosition: the loop steps over one target.
Mutant_NextPosition_steps_two(i) == i + 2

\* The chain position after position i in the for loop.
NextPosition(i) == i + 1

\* Mutant of AfterSkip: the skipped target is recorded as a failure.
Mutant_AfterSkip_records_error(last_error, target) ==
    Some(LLMResponse(<<ErrorPrefix, "no provider">>, "error", target.model,
                     target.provider, <<0, 0>>))

\* The skip branch of the loop (_get_provider returned None for target):
\* the last_error the loop carries on with.
AfterSkip(last_error, target) == last_error

RECURSIVE RunLoop(_, _, _, _, _, _, _)
RECURSIVE LoopBody(_, _, _, _, _, _, _)
\* One iteration of the for loop of chat at chain position i, where
\* _get_provider returned `got`: a skip goes on with the next position, a
\* client is invoked (the coroutine suspends).
LoopBody(cfg, made, chain, i, last_error, log, got) ==
    IF IsNone(got.provider)
    THEN RunLoop(cfg, got.cache, got.made, chain, NextPosition(i),
                 AfterSkip(last_error, chain[i]),
                 Append(log, Event(i, "skip", 0, FALSE, NoneV)))
    ELSE [idx |-> i, provider |-> got.provider,
          cache |-> got.cache, made |-> got.made, last_error |-> last_error,
          log |-> Append(log, Event(i, "invoke", Val(got.provider).id,
                                    Len(got.made) > Len(made), NoneV))]

\* The for loop of chat from chain position i up to its next suspension point
\* (the await of provider.chat) or to the end of the chain (idx = 0).
RunLoop(cfg, cache, made, chain, i, last_error, log) ==
    IF i > Len(chain)
    THEN [idx |-> 0, provider |-> NoneV, cache |-> cache, made |-> made,
          last_error |-> last_error, log |-> log]
    ELSE LoopBody(cfg, made, chain, i, last_error, log,
                  _get_provider(cfg, cache, made, chain[i]))

\* Mutant of Exhausted: the synthesized response is returned even when a
\* failure was recorded.
Mutant_Exhausted_always_synthesized(c, decision, last_error, dflt) ==
    LLMResponse(<<ErrorPrefix, "no valid provider/model route found.">>, "error",
                dflt.model, dflt.provider, <<c, 0>>)

\* Mutant of Exhausted: the synthesized response names the decision's primary
\* target.
Mutant_Exhausted_names_primary(c, decision, last_error, dflt) ==
    IF ~IsNone(last_error) THEN Val(last_error)
    ELSE LLMResponse(<<ErrorPrefix, "no valid provider/model route found.">>, "error",
                     decision.primary.model, decision.primary.provider, <<c, 0>>)

\* The response chat returns when the chain of `decision` is exhausted.
Exhausted(c, decision, last_error, dflt) ==
    IF ~IsNone(last_error) THEN Val(last_error)
    ELSE LLMResponse(<<ErrorPrefix, "no valid provider/model route found.">>, "error",
                     dflt.model, dflt.provider, <<c, 0>>)

\* The preferred target chat builds from its model argument (optional).
PreferredTarget(cfg, model, dflt) ==
    IF IsNone(model) THEN NoneV
    ELSE Some(RouteTarget(Val(model), OrElse(get_provider_name(cfg, model), dflt.provider)))

\* The decision chat takes for its arguments.
ChatDecision(messages, model) ==
    LET query == _extract_latest_user_message(messages)
        system_prompt == _extract_system_prompt(messages)
    IN  decide(router, scoring_config, Some(query), system_prompt,
               _estimate_tokens(JoinText(OrEmpty(system_prompt), query)),
               PreferredTarget(config, model, default_target),
               ~routing_enabled)

\* The call record once the loop ran to `run`: returned when the chain is
\* exhausted, suspended at the await otherwise.
AfterLoop(c, call, run) ==
    IF run.idx = 0
    THEN [call EXCEPT !.pc = "returned", !.idx = 0, !.provider = NoneV,
                      !.last_error = run.last_error, !.log = run.log,
                      !.response = Some(Exhausted(c, Val(call.decision), run.last_error,
                                                  default_target))]
    ELSE [call EXCEPT !.pc = "awaiting", !.idx = run.idx, !.provider = run.provider,
                      !.last_error = run.last_error, !.log = run.log]

\* The dispatcher after the loop of call c ran to `run`.
Resumed(c, call, run) ==
    /\ calls' = [calls EXCEPT ![c] = AfterLoop(c, call, run)]
    /\ providers_cache' = run.cache
    /\ constructed' = run.made

\* Call c runs its loop from position `from` to its next suspension point or
\* to the end of the chain.
Resume(c, call, from, last_error, log) ==
    Resumed(c, call, RunLoop(config, providers_cache, constructed,
                             Val(call.decision).chain, from, last_error, log))

\* chat(messages, model=model) runs from its start to its first suspension
\* point, or to its return when no target can be attempted.
ChatBegin(c, messages, model) ==
    /\ calls[c].pc = "idle"
    /\ \A d \in Calls : d < c => calls[d].pc # "idle"
    /\ Resume(c, [IdleCall EXCEPT !.messages = messages, !.model = model,
                                  !.decision = Some(ChatDecision(messages, model))],
              1, NoneV, <<>>)
    /\ UNCHANGED <<config, scoring_config, router, routing_enabled, default_target,
                   provider_name, decided, redecided, classified,
                   looked, _running_tasks, bus, tasks>>

\* Mutant of Stamp: the provider is taken from the route target.
Mutant_Stamp_target_provider(raw, provider, target, origin) ==
    LLMResponse(raw.content, raw.finish_reason,
                IF raw.model = <<>> THEN target.model ELSE raw.model,
                target.provider, origin)

\* The response object after chat stamped provider and model on it.
Stamp(raw, provider, target, origin) ==
    LLMResponse(raw.content, raw.finish_reason,
                IF raw.model = <<>> THEN target.model ELSE raw.model,
                provider.provider_name, origin)

\* Mutant of ProviderNameAfter: a success is not remembered.
Mutant_ProviderNameAfter_keeps(current, provider, failed) == current

\* Mutant of ProviderNameAfter: the provider is remembered on a failure too.
Mutant_ProviderNameAfter_any(current, provider, failed) == provider.provider_name

\* self.provider_name after chat classified the response of `provider`.
ProviderNameAfter(current, provider, failed) ==
    IF failed THEN current ELSE provider.provider_name

\* chat after it classified the stamped response of `provider`: it returns
\* the response, or records the failure and goes on with the loop.
Classified(c, call, provider, response, failed, log) ==
    /\ provider_name' = ProviderNameAfter(provider_name, provider, failed)
    /\ IF ~failed
       THEN /\ calls' = [calls EXCEPT ![c] =
                            [call EXCEPT !.pc = "returned", !.log = log,
                                         !.response = Some(response)]]
            /\ UNCHANGED <<providers_cache, constructed>>
       ELSE Resume(c, call, NextPosition(call.idx), Some(response), log)

\* chat with the stamped response of `provider` in hand.
Received(c, call, provider, response, failed) ==
    Classified(c, call, provider, response, failed,
               Append(call.log, Event(call.idx, IF failed THEN "fail" ELSE "ok",
                                      provider.id, FALSE, Some(response))))

\* chat stamps the raw response of the awaited client and classifies it.
Stamped(c, call, provider, response) ==
    Received(c, call, provider, response, _is_provider_error(response))

\* The awaited provider.chat(...) of call c returns `raw`; chat runs on to its
\* return or to its next suspension point.
BackendReturn(c, raw) ==
    /\ calls[c].pc = "awaiting"
    /\ Stamped(c, calls[c], Val(calls[c].provider),
               Stamp(raw, Val(calls[c].provider),
                     Val(calls[c].decision).chain[calls[c].idx], <<c, calls[c].idx>>))
    /\ UNCHANGED <<config, scoring_config, router, routing_enabled, default_target, decided, redecided, classified,
                   looked, _running_tasks, bus, tasks>>

\* The awaited provider.chat(...) of call c raises: chat has no handler, the
\* exception leaves chat.
BackendRaise(c) ==
    /\ calls[c].pc = "awaiting"
    /\ calls' = [calls EXCEPT ![c] =
                    [@ EXCEPT !.pc = "raised",
                              !.log = Append(@, Event(calls[c].idx, "raise",
                                                      Val(calls[c].provider).id,
                                                      FALSE, NoneV))]]
    /\ UNCHANGED <<config, scoring_config, router, routing_enabled, default_target,
                   provider_name, providers_cache, constructed, decided, redecided, classified,
                   looked, _running_tasks, bus, tasks>>

\* Mutant of Cancelled: the cancelled call forgets the failures it recorded.
Mutant_Cancelled_forgets(call) ==
    [call EXCEPT !.pc = "cancelled", !.last_error = NoneV,
                 !.log = <<Event(call.idx, "cancel", Val(call.provider).id, FALSE, NoneV)>>]

\* The call record after CancelledError was raised at its await: chat has no
\* handler and no finally, its frame is left as it stands.
Cancelled(call) ==
    [call EXCEPT !.pc = "cancelled",
                 !.log = Append(@, Event(call.idx, "cancel", Val(call.provider).id,
                                         FALSE, NoneV))]

\* The caller cancels call c while its provider.chat(...) is suspended: the
\* await raises CancelledError, which leaves chat.
Cancel(c) ==
    /\ calls[c].pc = "awaiting"
    /\ calls' = [calls EXCEPT ![c] = Cancelled(calls[c])]
    /\ UNCHANGED <<config, scoring_config, router, routing_enabled, default_target,
                   provider_name, providers_cache, constructed, decided, redecided,
                   classified,
                   looked, _running_tasks, bus, tasks>>

-----------------------------------------------------------------------------
(* The dispatcher under test *)

\* RoutedLLMProvider.__init__: the _default_target it builds.
InitDefaultTarget(cfg, default_model, default_provider_name) ==
    RouteTarget(default_model,
                IF default_provider_name # "" THEN default_provider_name
                ELSE get_provider_name(cfg, Some(default_model)))

TierTarget(primary, fallback) == [primary |-> primary, fallback |-> fallback]

\* The route table of the dispatcher: the SIMPLE tier's primary has no provider
\* configuration and its fallback repeats the default target, MEDIUM and
\* COMPLEX have no entry, and the last global fallback names no provider.
DispatchRouter ==
    [default_target |-> T_gpt_openai,
     global_fallback_targets |-> <<T_claude, T_gpt_noprov>>,
     tier_targets |->
        [simple |-> Some(TierTarget(T_llama_acme, <<T_gpt_openai>>)),
         medium |-> NoneV,
         complex |-> NoneV,
         reasoning |-> Some(TierTarget(T_claude, <<T_bedrock_groq, T_claude>>))]]

Providers(openai_key, anthropic_key) ==
    [openai |-> ProviderConfig(openai_key, ""),
     anthropic |-> ProviderConfig(anthropic_key, "https://proxy.example/v1"),
     openrouter |-> ProviderConfig("", ""),
     groq |-> ProviderConfig("", ""),
     openai_codex |-> ProviderConfig("", "")]

\* The provider configurations the dispatcher is run with: the openai and
\* anthropic keys set, no key set.
Configs ==
    { [providers |-> Providers(k[1], k[2]),
       defaults_model |-> <<"gpt">>, defaults_provider |-> ""] :
      k \in { <<"sk-openai", "sk-anthropic">>, <<"", "">> } }

\* Texts of the requests.
TxtPlain  == Text({}, 20, 0, FALSE)                       \* ambiguous
TxtQuick  == Text({"quick"}, 30, 0, FALSE)                \* SIMPLE
TxtWhy    == Text({"why", "analyze"}, 60, 1, FALSE)       \* reasoning override
TxtBuild  == Text({"python", "build"}, 40, 0, FALSE)      \* MEDIUM
TxtSystem == Text({"agent"}, 80, 0, FALSE)

\* The requests chat is called with: <<messages, model>>.
\*   1. SIMPLE tier: its primary is skipped, its fallback is the default target
\*   2. ambiguous classification with an explicit model
\*   3. reasoning override; the latest user message has structured content
Requests ==
    { << << StrMessage("system", TxtSystem), StrMessage("user", TxtQuick) >>, NoneV >>,
      << << StrMessage("user", TxtPlain) >>, Some(<<"gpt", "mini">>) >>,
      << << StrMessage("user", TxtQuick),
            ListMessage("user", <<Part("image_url", EmptyText), Part("text", TxtWhy)>>) >>,
         NoneV >> }

\* What a backend client's chat may return, before chat stamps it.
RawResponse(content, finish_reason, model) ==
    [content |-> content, finish_reason |-> finish_reason, model |-> model]

RawResponses ==
    { RawResponse(<<"hello">>, "stop", <<>>),
      RawResponse(<<>>, "tool_calls", <<"backend", "model">>),
      RawResponse(<<ErrorPrefix, "rate limit">>, "error", <<>>) }

Init ==
    /\ config \in Configs
    /\ scoring_config = DefaultScoringConfig
    /\ router = DispatchRouter
    /\ routing_enabled \in BOOLEAN
    /\ default_target = InitDefaultTarget(config, <<"gpt">>, "openai")
    /\ provider_name = "openai"
    /\ providers_cache = <<>>
    /\ constructed = <<>>
    /\ calls = [c \in Calls |-> IdleCall]
    /\ decided = NoneV
    /\ redecided = NoneV
    /\ classified = {}
    /\ looked = <<>>
    /\ _running_tasks = {}
    /\ bus = <<>>
    /\ tasks = <<>>

Next ==
    \/ \E c \in Calls, req \in Requests : ChatBegin(c, req[1], req[2])
    \/ \E c \in Calls, raw \in RawResponses : BackendReturn(c, raw)
    \/ \E c \in Calls : BackendRaise(c)

Spec == Init /\ [][Next]_vars

-----------------------------------------------------------------------------
(* QueryRouter.decide on its own, over a family of route tables *)

\* Length bound of the fallback lists (global and per tier) of the route tables.
MaxFallbacks == 2

\* Two targets with the same model and different providers, and a third one.
DecideTargets == {T_gpt_openai, T_gpt_noprov, T_claude}

FallbackLists == UNION { [1..k -> DecideTargets] : k \in 0..MaxFallbacks }

TierChoices ==
    {NoneV} \cup { Some(TierTarget(p, f)) : p \in DecideTargets, f \in FallbackLists }

RouteTables ==
    { [default_target |-> T_gpt_openai,
       global_fallback_targets |-> g,
       tier_targets |-> [simple |-> s, medium |-> NoneV, complex |-> NoneV, reasoning |-> r]] :
      g \in FallbackLists, s \in TierChoices,
      r \in {NoneV, Some(TierTarget(T_claude, <<T_gpt_openai>>))} }

DecideQueries == {NoneV, Some(TxtPlain), Some(TxtQuick), Some(TxtWhy), Some(TxtBuild)}
DecidePreferred == {NoneV, Some(T_gpt_noprov), Some(T_mini_openai)}

DecideInit ==
    /\ config \in {cfg \in Configs : cfg.providers.openai.api_key # ""}
    /\ scoring_config = DefaultScoringConfig
    /\ router \in RouteTables
    /\ routing_enabled = TRUE
    /\ default_target = router.default_target
    /\ provider_name = "openai"
    /\ providers_cache = <<>>
    /\ constructed = <<>>
    /\ calls = [c \in Calls |-> IdleCall]
    /\ decided = NoneV
    /\ redecided = NoneV
    /\ classified = {}
    /\ looked = <<>>
    /\ _running_tasks = {}
    /\ bus = <<>>
    /\ tasks = <<>>

\* The mutable dispatcher state a call starts in: the last successful provider
\* and the keys of the client cache.
Snapshot == [provider_name |-> provider_name, cached |-> DOMAIN providers_cache]

\* router.decide(query, system_prompt, estimated_tokens, preferred_target, force_default)
DecideCall(query, system_prompt, estimated_tokens, preferred_target, force_default) ==
    /\ decided = NoneV
    /\ decided' = Some([query |-> query, system_prompt |-> system_prompt,
                        estimated_tokens |-> estimated_tokens,
                        preferred_target |-> preferred_target,
                        force_default |-> force_default,
                        at |-> Snapshot,
                        decision |-> decide(router, scoring_config, query, system_prompt,
                                            estimated_tokens, preferred_target,
                                            force_default)])
    /\ UNCHANGED <<config, scoring_config, router, routing_enabled, default_target,
                   provider_name, providers_cache, constructed, calls, redecided,
                   classified,
                   looked, _running_tasks, bus, tasks>>

DecideNext ==
    \E query \in DecideQueries, preferred_target \in DecidePreferred,
       force_default \in BOOLEAN :
        DecideCall(query, NoneV, _estimate_tokens(OrEmpty(query)), preferred_target,
                   force_default)

DecideSpec == DecideInit /\ [][DecideNext]_vars

-----------------------------------------------------------------------------
(* QueryRouter.classify_by_rules on its own, over a family of scoring configs *)

\* Number of classify_by_rules calls recorded in one behaviour.
MaxClassify == 2

\* Scoring configs: the default one, and the ones that differ from it in the
\* confidence threshold, the steepness and the tier boundaries.
ScoringConfigs ==
    { [DefaultScoringConfig EXCEPT !.confidence_threshold = t,
                                   !.confidence_steepness = k,
                                   !.tier_boundaries = b] :
      t \in {ConfidenceThreshold, 90},
      k \in {ConfidenceSteepness, 20},
      b \in { DefaultScoringConfig.tier_boundaries,
              [simple_medium |-> -50, medium_complex |-> 50, complex_reasoning |-> 300] } }

\* Texts of the classified requests.
TxtHard ==
    Text({"python", "debug", "architecture", "latency", "kubernetes", "build", "design",
          "prove"}, 200, 2, FALSE)                        \* one reasoning keyword
TxtQuickWhy == Text({"quick", "simple", "why", "prove"}, 40, 1, FALSE)
TxtReasonSys == Text({"why", "analyze", "compare"}, 120, 0, FALSE)

ClassifyPrompts == {TxtPlain, TxtQuick, TxtBuild, TxtWhy, TxtHard, TxtQuickWhy}
ClassifySystems == {NoneV, Some(TxtReasonSys)}
ClassifyTokens == {50, 1000, 3000}

\* The route tables the classified requests are decided with: with and without
\* an entry for the SIMPLE tier.
ClassifyRouters ==
    { DispatchRouter, [DispatchRouter EXCEPT !.tier_targets.simple = NoneV] }

ClassifyInit ==
    /\ config \in {cfg \in Configs : cfg.providers.openai.api_key # ""}
    /\ scoring_config \in ScoringConfigs
    /\ router \in ClassifyRouters
    /\ routing_enabled = TRUE
    /\ default_target = router.default_target
    /\ provider_name = "openai"
    /\ providers_cache = <<>>
    /\ constructed = <<>>
    /\ calls = [c \in Calls |-> IdleCall]
    /\ decided = NoneV
    /\ redecided = NoneV
    /\ classified = {}
    /\ looked = <<>>
    /\ _running_tasks = {}
    /\ bus = <<>>
    /\ tasks = <<>>

\* router.classify_by_rules(prompt, system_prompt, estimated_tokens)
ClassifyCall(prompt, system_prompt, estimated_tokens) ==
    /\ Cardinality(classified) < MaxClassify
    /\ classified' = classified \cup
           { [prompt |-> prompt, system_prompt |-> system_prompt,
              estimated_tokens |-> estimated_tokens,
              result |-> classify_by_rules(scoring_config, prompt, system_prompt,
                                           estimated_tokens)] }
    /\ UNCHANGED <<config, scoring_config, router, routing_enabled, default_target,
                   provider_name, providers_cache, constructed, calls, decided, redecided,
                   looked, _running_tasks, bus, tasks>>

\* classify_by_rules is called directly; decide is called once, after at most
\* one direct classification.
ClassifyNext ==
    \/ /\ decided = NoneV
       /\ \E prompt \in ClassifyPrompts, system_prompt \in ClassifySystems,
             estimated_tokens \in ClassifyTokens :
              ClassifyCall(prompt, system_prompt, estimated_tokens)
    \/ /\ Cardinality(classified) <= 1
       /\ \E prompt \in ClassifyPrompts, system_prompt \in ClassifySystems,
             estimated_tokens \in ClassifyTokens,
             preferred_target \in {NoneV, Some(T_mini_openai)} :
              DecideCall(Some(prompt), system_prompt, estimated_tokens, preferred_target,
                         FALSE)

ClassifySpec == ClassifyInit /\ [][ClassifyNext]_vars

-----------------------------------------------------------------------------
(* The router's calls next to one chat call on the dispatcher *)

\* router.decide is called again with the arguments of the recorded call.
DecideAgain ==
    /\ ~IsNone(decided)
    /\ IsNone(redecided)
    /\ redecided' = Some([at |-> Snapshot,
                          decision |-> decide(router, scoring_config, Val(decided).query,
                                              Val(decided).system_prompt,
                                              Val(decided).estimated_tokens,
                                              Val(decided).preferred_target,
                                              Val(decided).force_default)])
    /\ UNCHANGED <<config, scoring_config, router, routing_enabled, default_target,
                   provider_name, providers_cache, constructed, calls, decided, classified,
                   looked, _running_tasks, bus, tasks>>

\* f"{target.provider}:{target.model}"
_format_target(target) == <<target.provider, ":">> \o target.model

\* One line of the text describe_routing returns: its kind, the target it
\* formats, its text, the number it carries and the items it lists.
Line(kind, target, text, n, items) ==
    [kind |-> kind, target |-> target, text |-> text, n |-> n, items |-> items]

\* Mutant of FallbackLines: the enumeration starts at the primary target.
Mutant_FallbackLines_lists_primary(chain) ==
    [i \in 1..Len(chain) |-> Line("fallback", _format_target(chain[i]), "", i, <<>>)]

\* The lines below "Fallback chain:": the targets of chain[1:], numbered from
\* 1, or "(none)".
FallbackLines(chain) ==
    LET fallbacks == Tail(chain)
    IN  IF fallbacks # <<>>
        THEN [i \in 1..Len(fallbacks) |->
                  Line("fallback", _format_target(fallbacks[i]), "", i, <<>>)]
        ELSE <<Line("(none)", <<>>, "", 0, <<>>)>>

\* The lines of describe_routing for its decision.  The tier line carries the
\* tier, the score in 1/1000 (printed with three decimals) and the agentic
\* score in 1/10; the confidence it prints with two decimals is left out.
DescribeLines(enabled, dflt, decision) ==
    << Line("mode", <<>>, IF enabled THEN "enabled" ELSE "disabled", 0, <<>>),
       Line("default", _format_target(dflt), "", 0, <<>>),
       Line("selected", _format_target(decision.primary), decision.reason, 0, <<>>) >>
    \o (IF decision.tier # ""
        THEN <<Line("tier", <<>>, decision.tier, decision.score,
                    <<decision.agentic_score>>)>>
        ELSE <<>>)
    \o <<Line("fallback chain", <<>>, "", 0, <<>>)>>
    \o FallbackLines(decision.chain)
    \o (IF ~IsNone(decision.signals) /\ Val(decision.signals) # <<>>
        THEN <<Line("signals", <<>>, "", 0, Take(Val(decision.signals), 6))>>
        ELSE <<>>)

\* RoutedLLMProvider.describe_routing
describe_routing(r, cfg, enabled, dflt, query) ==
    DescribeLines(enabled, dflt,
                  decide(r, cfg, query, NoneV, _estimate_tokens(OrEmpty(query)), NoneV,
                         ~enabled))

\* describe_routing(query): the decide call it makes is recorded like a direct
\* one, next to the lines it returns.
DescribeRouting(query) ==
    /\ decided = NoneV
    /\ decided' = Some([query |-> query, system_prompt |-> NoneV,
                        estimated_tokens |-> _estimate_tokens(OrEmpty(query)),
                        preferred_target |-> NoneV,
                        force_default |-> ~routing_enabled,
                        at |-> Snapshot,
                        decision |-> decide(router, scoring_config, query, NoneV,
                                            _estimate_tokens(OrEmpty(query)), NoneV,
                                            ~routing_enabled),
                        lines |-> describe_routing(router, scoring_config, routing_enabled,
                                                   default_target, query)])
    /\ UNCHANGED <<config, scoring_config, router, routing_enabled, default_target,
                   provider_name, providers_cache, constructed, calls, redecided,
                   classified, looked, _running_tasks, bus, tasks>>

RouterQueries == {NoneV, Some(TxtWhy)}

RouterNext ==
    \/ \E req \in Requests : ChatBegin(1, req[1], req[2])
    \/ \E raw \in RawResponses : BackendReturn(1, raw)
    \/ BackendRaise(1)
    \/ Cancel(1)
    \/ \E query \in RouterQueries, preferred_target \in {NoneV, Some(T_mini_openai)} :
           DecideCall(query, Some(TxtSystem), 50, preferred_target, FALSE)
    \/ \E query \in RouterQueries : DescribeRouting(query)
    \/ DecideAgain
    \/ \E prompt \in {TxtQuick, TxtHard} : ClassifyCall(prompt, Some(TxtSystem), 50)

RouterSpec == Init /\ [][RouterNext]_vars

-----------------------------------------------------------------------------
(* describe_routing on its own, over a family of route tables *)

\* Route tables with every list of global fallbacks, with and without entries
\* for the SIMPLE and the REASONING tier.
DescribeTables ==
    { [default_target |-> T_gpt_openai,
       global_fallback_targets |-> g,
       tier_targets |-> [simple |-> s, medium |-> NoneV, complex |-> NoneV, reasoning |-> r]] :
      g \in FallbackLists,
      s \in {NoneV, Some(TierTarget(T_claude, <<T_gpt_noprov>>))},
      r \in {NoneV, Some(TierTarget(T_claude, <<T_gpt_openai, T_llama_acme>>))} }

\* No query; queries without and with keywords; one that fires eight
\* dimensions.
DescribeQueries ==
    { NoneV, Some(TxtPlain), Some(TxtQuick), Some(TxtWhy), Some(TxtBuild),
      Some(Text({"python", "debug", "why", "analyze", "architecture", "latency", "build",
                 "must", "json", "cite", "kubernetes", "plan"}, 320, 0, FALSE)) }

DescribeInit ==
    /\ config \in {cfg \in Configs : cfg.providers.openai.api_key # ""}
    /\ scoring_config = DefaultScoringConfig
    /\ router \in DescribeTables
    /\ routing_enabled \in BOOLEAN
    /\ default_target = router.default_target
    /\ provider_name = "openai"
    /\ providers_cache = <<>>
    /\ constructed = <<>>
    /\ calls = [c \in Calls |-> IdleCall]
    /\ decided = NoneV
    /\ redecided = NoneV
    /\ classified = {}
    /\ looked = <<>>
    /\ _running_tasks = {}
    /\ bus = <<>>
    /\ tasks = <<>>

DescribeNext == \E query \in DescribeQueries : DescribeRouting(query)

DescribeSpec == DescribeInit /\ [][DescribeNext]_vars

-----------------------------------------------------------------------------
(* Two overlapping chat calls that the caller may cancel *)

CancelNext ==
    \/ \E c \in {1, 2}, req \in Requests : ChatBegin(c, req[1], req[2])
    \/ \E c \in {1, 2}, raw \in RawResponses : BackendReturn(c, raw)
    \/ \E c \in {1, 2} : BackendRaise(c)
    \/ \E c \in {1, 2} : Cancel(c)

CancelSpec == Init /\ [][CancelNext]_vars

-----------------------------------------------------------------------------
(* One chat call and every kind of backend response *)

\* A plain answer; a tool call without content, the backend naming its model;
\* the error text of a client under a non-error finish reason; an error finish
\* reason with another text; an answer that quotes the error text further on.
BackendResponses ==
    { RawResponse(<<"hello">>, "stop", <<>>),
      RawResponse(<<>>, "tool_calls", <<"backend", "model">>),
      RawResponse(<<ErrorPrefix, "rate limit">>, "stop", <<>>),
      RawResponse(<<"overloaded">>, "error", <<"backend", "model">>),
      RawResponse(<<"it said:", ErrorPrefix>>, "length", <<>>) }

OneCallNext ==
    \/ \E req \in Requests : ChatBegin(1, req[1], req[2])
    \/ \E raw \in BackendResponses : BackendReturn(1, raw)
    \/ BackendRaise(1)
    \/ Cancel(1)

OneCallSpec == Init /\ [][OneCallNext]_vars

-----------------------------------------------------------------------------
(* One chat call over a family of message lists *)

\* Length bound of the message lists.
MaxMessages == 3

\* Messages: two system messages with string content and one with structured
\* content, user messages with string content, with an image part only and
\* with text parts around an image part, and an assistant message.
ExtractMessages ==
    { StrMessage("system", TxtSystem),
      StrMessage("system", TxtReasonSys),
      ListMessage("system", <<Part("text", TxtReasonSys)>>),
      StrMessage("user", TxtWhy),
      ListMessage("user", <<Part("image_url", EmptyText)>>),
      ListMessage("user", <<Part("text", TxtBuild), Part("image_url", EmptyText),
                            Part("text", TxtWhy)>>),
      StrMessage("assistant", TxtHard) }

ExtractNext ==
    \/ \E n \in 0..MaxMessages : \E messages \in [1..n -> ExtractMessages] :
           ChatBegin(1, messages, NoneV)
    \/ \E raw \in RawResponses : BackendReturn(1, raw)
    \/ BackendRaise(1)

ExtractSpec == Init /\ [][ExtractNext]_vars

-----------------------------------------------------------------------------
(* RoutedLLMProvider._get_provider on its own, over a family of targets *)

\* Number of direct _get_provider calls in one behaviour.
MaxGets == 2

\* The targets looked up: those of the dispatcher's route table, and targets
\* with the model of another provider, a provider name that is not
\* normalised, a blank provider name, a gateway provider, no provider and a
\* model without keyword, no provider and a bedrock/ model, an OAuth provider.
GetTargets ==
    { T_gpt_openai, T_gpt_noprov, T_claude, T_llama_acme, T_bedrock_groq,
      RouteTarget(<<"claude">>, "openai"),
      RouteTarget(<<"gpt">>, "OpenAI"),
      RouteTarget(<<"gpt">>, " "),
      RouteTarget(<<"llama">>, "openrouter"),
      RouteTarget(<<"llama">>, ""),
      RouteTarget(<<"bedrock", "nova">>, ""),
      RouteTarget(<<"codex">>, "openai-codex") }

\* The configurations: the API keys of the openai, anthropic, openrouter and
\* openai_codex sections are all set, only anthropic's is, or none is;
\* anthropic has an API base override, groq never has a key,
\* agents.defaults.provider is unset or names groq.
GetConfigs ==
    { [providers |->
           [openai |-> ProviderConfig(k[1], ""),
            anthropic |-> ProviderConfig(k[2], "https://proxy.example/v1"),
            openrouter |-> ProviderConfig(k[3], ""),
            groq |-> ProviderConfig("", ""),
            openai_codex |-> ProviderConfig(k[4], "")],
       defaults_model |-> <<"gpt">>, defaults_provider |-> d] :
      k \in { <<"sk-openai", "sk-anthropic", "sk-or", "sk-codex">>,
               <<"", "sk-anthropic", "", "">>,
               <<"", "", "", "">> },
      d \in {"", "groq"} }

\* RoutedLLMProvider(config, default_model="gpt", default_provider_name=...):
\* the provider name is passed explicitly or left to the configuration.
GetInit ==
    /\ config \in GetConfigs
    /\ scoring_config = DefaultScoringConfig
    /\ \E default_provider_name \in {"", "openai"} :
           /\ default_target = InitDefaultTarget(config, <<"gpt">>, default_provider_name)
           /\ provider_name = default_provider_name
    /\ router = [DispatchRouter EXCEPT !.default_target = default_target]
    /\ routing_enabled = TRUE
    /\ providers_cache = <<>>
    /\ constructed = <<>>
    /\ calls = [c \in Calls |-> IdleCall]
    /\ decided = NoneV
    /\ redecided = NoneV
    /\ classified = {}
    /\ looked = <<>>
    /\ _running_tasks = {}
    /\ bus = <<>>
    /\ tasks = <<>>

\* The dispatcher after _get_provider(target) resolved `name` and returned
\* `got`: the call is recorded with the cache before and after it.
Looked(target, name, got) ==
    /\ providers_cache' = got.cache
    /\ constructed' = got.made
    /\ looked' = Append(looked, [target |-> target, provider_name |-> name,
                                 before |-> providers_cache, after |-> got.cache,
                                 made |-> Len(got.made) - Len(constructed),
                                 provider |-> got.provider])

\* self._get_provider(target)
GetProvider(target) ==
    /\ Len(looked) < MaxGets
    /\ Looked(target, ResolveProviderName(config, target),
              _get_provider(config, providers_cache, constructed, target))
    /\ UNCHANGED <<config, scoring_config, router, routing_enabled, default_target,
                   provider_name, calls, decided, redecided, classified,
                   _running_tasks, bus, tasks>>

GetNext == \E target \in GetTargets : GetProvider(target)

GetSpec == GetInit /\ [][GetNext]_vars

-----------------------------------------------------------------------------
(* classify_by_rules with scores that fall on the tier boundaries *)

\* Scoring configs whose boundaries are weighted scores of the requests below,
\* with a threshold that a confidence of one half passes.
BoundaryConfigs ==
    { [DefaultScoringConfig EXCEPT !.confidence_threshold = t, !.tier_boundaries = b] :
      t \in {50, ConfidenceThreshold},
      b \in { DefaultScoringConfig.tier_boundaries,
              [simple_medium |-> 0, medium_complex |-> 70, complex_reasoning |-> 300] } }

\* The classified requests, and one with a single code keyword.
BoundaryPrompts == ClassifyPrompts \cup {Text({"python"}, 40, 0, FALSE)}

BoundaryInit ==
    /\ config \in {cfg \in Configs : cfg.providers.openai.api_key # ""}
    /\ scoring_config \in BoundaryConfigs
    /\ router = DispatchRouter
    /\ routing_enabled = TRUE
    /\ default_target = router.default_target
    /\ provider_name = "openai"
    /\ providers_cache = <<>>
    /\ constructed = <<>>
    /\ calls = [c \in Calls |-> IdleCall]
    /\ decided = NoneV
    /\ redecided = NoneV
    /\ classified = {}
    /\ looked = <<>>
    /\ _running_tasks = {}
    /\ bus = <<>>
    /\ tasks = <<>>

BoundaryNext ==
    \E prompt \in BoundaryPrompts, system_prompt \in ClassifySystems,
       estimated_tokens \in ClassifyTokens :
        ClassifyCall(prompt, system_prompt, estimated_tokens)

BoundarySpec == BoundaryInit /\ [][BoundaryNext]_vars

-----------------------------------------------------------------------------
(* classify_by_rules over requests that differ in their keyword counts *)

\* The default scoring config, and the one whose weight map has no entry for
\* the agentic-task dimension.
DimensionConfigs ==
    { DefaultScoringConfig,
      [DefaultScoringConfig EXCEPT !.dimension_weights =
           [n \in DOMAIN dimension_weights \ {"agenticTask"} |-> dimension_weights[n]]] }

\* User texts: no keyword; a simple keyword; one technical and one negation
\* keyword (both below the low threshold); two technical, two negation and
\* one constraint keyword; four technical, three negation and three
\* constraint keywords; one to five agentic keywords, four of them next to
\* two reasoning keywords.
DimensionPrompts ==
    { TxtPlain, TxtQuick,
      Text({"latency", "not"}, 60, 0, FALSE),
      Text({"architecture", "latency", "not", "never", "must"}, 90, 0, FALSE),
      Text({"architecture", "latency", "throughput", "protocol", "not", "never",
            "avoid", "must", "should", "cannot"}, 160, 0, FALSE),
      Text({"plan"}, 30, 0, FALSE),
      Text({"plan", "execute"}, 40, 0, FALSE),
      Text({"plan", "execute", "iterate"}, 50, 0, FALSE),
      Text({"plan", "execute", "iterate", "workflow", "why", "analyze"}, 90, 1, FALSE),
      Text({"plan", "execute", "iterate", "workflow", "agent"}, 80, 0, FALSE) }

\* System texts: none; reasoning keywords; a simple keyword; a code and an
\* agentic keyword.
DimensionSystems ==
    { NoneV, Some(TxtReasonSys),
      Some(Text({"brief"}, 40, 0, FALSE)),
      Some(Text({"python", "plan"}, 60, 0, FALSE)) }

DimensionInit ==
    /\ config \in {cfg \in Configs : cfg.providers.openai.api_key # ""}
    /\ scoring_config \in DimensionConfigs
    /\ router = DispatchRouter
    /\ routing_enabled = TRUE
    /\ default_target = router.default_target
    /\ provider_name = "openai"
    /\ providers_cache = <<>>
    /\ constructed = <<>>
    /\ calls = [c \in Calls |-> IdleCall]
    /\ decided = NoneV
    /\ redecided = NoneV
    /\ classified = {}
    /\ looked = <<>>
    /\ _running_tasks = {}
    /\ bus = <<>>
    /\ tasks = <<>>

\* classify_by_rules is called once.
DimensionNext ==
    /\ classified = {}
    /\ \E prompt \in DimensionPrompts, system_prompt \in DimensionSystems,
          estimated_tokens \in ClassifyTokens :
           ClassifyCall(prompt, system_prompt, estimated_tokens)

DimensionSpec == DimensionInit /\ [][DimensionNext]_vars

(* classify_by_rules at the token thresholds and under every ordering of the
   tier boundaries *)

\* Scoring configs: the default token thresholds or two equal ones; the three
\* default boundary values assigned to the three boundaries in each of the six
\* orders; the default confidence threshold, one half, and one below one half.
ThresholdConfigs ==
    { [DefaultScoringConfig EXCEPT
           !.token_count_thresholds = k,
           !.tier_boundaries = [simple_medium |-> b[1], medium_complex |-> b[2],
                                complex_reasoning |-> b[3]],
           !.confidence_threshold = t] :
      k \in { DefaultScoringConfig.token_count_thresholds,
              [simple |-> 1000, complex |-> 1000] },
      b \in { <<SimpleMedium, MediumComplex, ComplexReasoning>>,
              <<SimpleMedium, ComplexReasoning, MediumComplex>>,
              <<MediumComplex, SimpleMedium, ComplexReasoning>>,
              <<MediumComplex, ComplexReasoning, SimpleMedium>>,
              <<ComplexReasoning, SimpleMedium, MediumComplex>>,
              <<ComplexReasoning, MediumComplex, SimpleMedium>> },
      t \in {ConfidenceThreshold, 50, 40} }

\* Token estimates below, at and above the thresholds.
ThresholdTokens ==
    { 0, TokenSimple - 1, TokenSimple, TokenSimple + 1, 999, 1000, 1001,
      TokenComplex - 1, TokenComplex, TokenComplex + 1 }

ThresholdInit ==
    /\ config \in {cfg \in Configs : cfg.providers.openai.api_key # ""}
    /\ scoring_config \in ThresholdConfigs
    /\ router = DispatchRouter
    /\ routing_enabled = TRUE
    /\ default_target = router.default_target
    /\ provider_name = "openai"
    /\ providers_cache = <<>>
    /\ constructed = <<>>
    /\ calls = [c \in Calls |-> IdleCall]
    /\ decided = NoneV
    /\ redecided = NoneV
    /\ classified = {}
    /\ looked = <<>>
    /\ _running_tasks = {}
    /\ bus = <<>>
    /\ tasks = <<>>

\* classify_by_rules is called once.
ThresholdNext ==
    /\ classified = {}
    /\ \E prompt \in ClassifyPrompts, system_prompt \in ClassifySystems,
          estimated_tokens \in ThresholdTokens :
           ClassifyCall(prompt, system_prompt, estimated_tokens)

ThresholdSpec == ThresholdInit /\ [][ThresholdNext]_vars

-----------------------------------------------------------------------------
(* SubagentManager (subagent.py) *)

\* max_iterations of _run_subagent
max_iterations == 15

\* The final result of a run whose loop ended without a final response.
NoFinalResponse == <<"Task completed but no final response was generated.">>

\* f"Error: {str(e)}"
ErrorResult == <<"Error:", "exception">>

\* What provider.chat returns to the subagent: content is optional (None, or
\* the sequence of the parts of a string, <<>> for ""), tool_calls is the
\* number of tool calls.
AgentResponse(content, finish_reason, tool_calls) ==
    [content |-> content, finish_reason |-> finish_reason, tool_calls |-> tool_calls]

\* LLMResponse.has_tool_calls
has_tool_calls(response) == response.tool_calls > 0

\* A response of the routed dispatcher as the subagent receives it.
FromDispatcher(response) == AgentResponse(Some(response.content), response.finish_reason, 0)

\* One subagent run.  pc is the await the coroutine is suspended at
\* ("created": not started, "chat": provider.chat, "tools": tools.execute,
\* "publish": bus.publish_inbound, "done": the coroutine ended); pending is the
\* number of tool calls of the iteration still to execute; status and result
\* are the arguments of the _announce_result call in progress; chats counts
\* the provider.chat calls, answered is the response without tool calls that
\* ended the loop, llm_failed tells whether a response was error-shaped,
\* raised whether an exception was caught, and escaped whether an exception
\* left the coroutine.
NewTask ==
    [pc |-> "created", iteration |-> 0, pending |-> 0, final_result |-> NoneV,
     status |-> "", result |-> <<>>, chats |-> 0, answered |-> NoneV,
     llm_failed |-> FALSE, raised |-> FALSE, escaped |-> FALSE]

\* Lines 265-281: the loop is left, the run announces "ok".
Completed(task) ==
    LET final_result == IF IsNone(task.final_result) THEN NoFinalResponse
                        ELSE Val(task.final_result)
    IN  [task EXCEPT !.pc = "publish", !.final_result = Some(final_result),
                     !.status = "ok", !.result = final_result]

\* Mutant of Excepted: the failed run announces "ok".
Mutant_Excepted_announces_ok(task) ==
    [task EXCEPT !.pc = "publish", !.status = "ok", !.result = ErrorResult,
                 !.raised = TRUE]

\* Lines 283-304: an exception raised inside the try is caught, the run
\* announces "error".
Excepted(task) ==
    [task EXCEPT !.pc = "publish", !.status = "error", !.result = ErrorResult,
                 !.raised = TRUE]

\* Mutant of Iterate: the loop test lets one more iteration through.
Mutant_Iterate_inclusive(task) ==
    IF task.iteration <= max_iterations
    THEN [task EXCEPT !.pc = "chat", !.iteration = @ + 1, !.chats = @ + 1]
    ELSE Completed(task)

\* `while iteration < max_iterations`, up to the await of provider.chat.
Iterate(task) ==
    IF task.iteration < max_iterations
    THEN [task EXCEPT !.pc = "chat", !.iteration = @ + 1, !.chats = @ + 1]
    ELSE Completed(task)

\* Lines 159-263: the response of provider.chat is handled, up to the first
\* tools.execute or, without tool calls, out of the loop.
Responded(task, response) ==
    LET seen == [task EXCEPT !.llm_failed =
                     @ \/ _is_provider_error([content |-> IF IsNone(response.content)
                                                          THEN <<>>
                                                          ELSE Val(response.content),
                                              finish_reason |-> response.finish_reason])]
    IN  IF has_tool_calls(response)
        THEN [seen EXCEPT !.pc = "tools", !.pending = response.tool_calls]
        ELSE Completed([seen EXCEPT !.final_result = response.content,
                                    !.answered = Some(response)])

\* Lines 237-252: one tools.execute returned; after the last one the loop
\* goes round.
Executed(task) ==
    IF task.pending > 1 THEN [task EXCEPT !.pending = @ - 1]
    ELSE Iterate([task EXCEPT !.pending = 0])

\* The dispatcher variables, which the subagent manager leaves alone.
dispatcher_vars ==
    <<config, scoring_config, router, routing_enabled, default_target, provider_name,
      providers_cache, constructed, calls, decided, redecided, classified, looked>>

\* The run of task_id goes on to task.
Step(task_id, task) ==
    /\ tasks' = [tasks EXCEPT ![task_id] = task]
    /\ UNCHANGED <<_running_tasks, bus>>
    /\ UNCHANGED dispatcher_vars

\* SubagentManager.spawn: the task is created and registered under a fresh id.
Spawn ==
    /\ tasks' = Append(tasks, NewTask)
    /\ _running_tasks' = _running_tasks \cup {Len(tasks) + 1}
    /\ UNCHANGED bus
    /\ UNCHANGED dispatcher_vars

\* _run_subagent from its start to the first provider.chat.
Start(task_id) ==
    /\ tasks[task_id].pc = "created"
    /\ Step(task_id, Iterate(tasks[task_id]))

\* provider.chat returns response.
ChatReturn(task_id, response) ==
    /\ tasks[task_id].pc = "chat"
    /\ Step(task_id, Responded(tasks[task_id], response))

\* provider.chat raises.
ChatRaise(task_id) ==
    /\ tasks[task_id].pc = "chat"
    /\ Step(task_id, Excepted(tasks[task_id]))

\* tools.execute returns.
ToolReturn(task_id) ==
    /\ tasks[task_id].pc = "tools"
    /\ Step(task_id, Executed(tasks[task_id]))

\* tools.execute raises.
ToolRaise(task_id) ==
    /\ tasks[task_id].pc = "tools"
    /\ Step(task_id, Excepted(tasks[task_id]))

\* The inbound message _announce_result publishes: status_text is
\* "completed successfully" for status "ok" and "failed" otherwise.
Announcement(task_id, task) ==
    [task_id |-> task_id, status |-> task.status,
     status_text |-> IF task.status = "ok" THEN "completed successfully" ELSE "failed",
     result |-> task.result]

\* bus.publish_inbound returns: _announce_result and the run end.
PublishReturn(task_id) ==
    /\ tasks[task_id].pc = "publish"
    /\ bus' = Append(bus, Announcement(task_id, tasks[task_id]))
    /\ tasks' = [tasks EXCEPT ![task_id].pc = "done"]
    /\ UNCHANGED _running_tasks
    /\ UNCHANGED dispatcher_vars

\* bus.publish_inbound raises: from the "ok" announcement the exception is
\* caught by the except branch, from the "error" announcement it leaves the
\* coroutine.
PublishRaise(task_id) ==
    /\ tasks[task_id].pc = "publish"
    /\ Step(task_id, IF tasks[task_id].status = "ok" THEN Excepted(tasks[task_id])
                     ELSE [tasks[task_id] EXCEPT !.pc = "done", !.escaped = TRUE])

\* The done callback of the task: self._running_tasks.pop(task_id, None).
DoneCallback(task_id) ==
    /\ tasks[task_id].pc = "done"
    /\ task_id \in _running_tasks
    /\ _running_tasks' = _running_tasks \ {task_id}
    /\ UNCHANGED <<bus, tasks>>
    /\ UNCHANGED dispatcher_vars

\* SubagentManager.get_running_count
get_running_count == Cardinality(_running_tasks)

\* Number of subagents spawned.
MaxSpawn == 2

\* What provider.chat returns where several runs are interleaved: an answer
\* and one tool call.
FewResponses ==
    { AgentResponse(Some(<<"done">>), "stop", 0),
      AgentResponse(NoneV, "tool_calls", 1) }

\* What provider.chat returns to a single run: also a response without
\* content, two tool calls next to content, and the failures of the routed
\* dispatcher: its no-route response and a backend's error response that it
\* returned as its last error.
AgentResponses ==
    FewResponses \cup
    { AgentResponse(NoneV, "stop", 0),
      AgentResponse(Some(<<"working">>), "tool_calls", 2),
      FromDispatcher(Exhausted(1, ForcedDecision(DispatchRouter, T_gpt_openai), NoneV,
                               T_gpt_openai)),
      FromDispatcher(Exhausted(1, ForcedDecision(DispatchRouter, T_gpt_openai),
                               Some(LLMResponse(<<ErrorPrefix, "rate limit">>, "stop",
                                                <<"gpt">>, "openai", <<1, 1>>)),
                               T_gpt_openai)) }

\* The steps of the run of task_id; the provider asks for tools in the first
\* `rounds` iterations only.
Run(task_id, responses, rounds) ==
    \/ Start(task_id)
    \/ \E response \in responses :
           /\ has_tool_calls(response) => tasks[task_id].iteration <= rounds
           /\ ChatReturn(task_id, response)
    \/ ChatRaise(task_id)
    \/ ToolReturn(task_id)
    \/ ToolRaise(task_id)
    \/ PublishReturn(task_id)
    \/ PublishRaise(task_id)
    \/ DoneCallback(task_id)

\* The dispatcher the subagent manager was constructed with.
SubagentInit ==
    /\ Init
    /\ routing_enabled
    /\ config.providers.openai.api_key # ""

\* Several runs, interleaved at their awaits; tools are asked for in the first
\* iteration.
SubagentNext ==
    \/ Len(tasks) < MaxSpawn /\ Spawn
    \/ \E task_id \in 1..Len(tasks) : Run(task_id, FewResponses, 1)

SubagentSpec == SubagentInit /\ [][SubagentNext]_vars

\* The event loop runs every coroutine whose await ended and every done
\* callback that is due.
SubagentFairSpec == SubagentSpec /\ WF_vars(SubagentNext)

\* One run, with tool calls in any iteration.
OneRunNext ==
    \/ tasks = <<>> /\ Spawn
    \/ tasks # <<>> /\ Run(1, AgentResponses, max_iterations)

OneRunSpec == SubagentInit /\ [][OneRunNext]_vars

\* Every provider call, tool execution and publication ends (returns or
\* raises), and the event loop runs the coroutine and the done callback.
OneRunFairSpec == OneRunSpec /\ WF_vars(OneRunNext)

-----------------------------------------------------------------------------
(* Properties *)

\* A backend failure as the specification defines it: finishReason "error",
\* or content starting with the literal prefix.
IsFailure(response) ==
    \/ response.finish_reason = "error"
    \/ response.content # <<>> /\ response.content[1] = "Error calling LLM:"

SamePair(a, b) == a.provider = b.provider /\ a.model = b.model

ChainOf(c) == Val(calls[c].decision).chain

\* Indices of a log at which a backend invocation ended / was started.
Results(log) == {j \in 1..Len(log) : log[j].ev \in {"fail", "ok", "raise", "cancel"}}
Invokes(log) == {j \in 1..Len(log) : log[j].ev = "invoke"}
Skips(log) == {j \in 1..Len(log) : log[j].ev = "skip"}
Fails(log) == {j \in 1..Len(log) : log[j].ev = "fail"}
Last(S) == CHOOSE j \in S : \A k \in S : k <= j

Returned(c) == calls[c].pc = "returned"
Succeeded(c) == Returned(c) /\ ~IsFailure(Val(calls[c].response))

\* C1: every RouteDecision returned by decide has a non-empty chain, the
\* chain's first element is the decision's primary, and no two elements of the
\* chain share the same (provider, model) pair.
C1_ChainWellFormed ==
    ~IsNone(decided) =>
        LET d == Val(decided).decision
        IN  /\ Len(d.chain) >= 1
            /\ d.chain[1] = d.primary
            /\ \A i, j \in 1..Len(d.chain) : SamePair(d.chain[i], d.chain[j]) => i = j

\* A decision for a tier whose primary repeats the default target and whose
\* fallbacks repeat the global fallbacks: duplicates were dropped.
C1_Witness ==
    /\ ~IsNone(decided)
    /\ ~Val(decided).force_default
    /\ Val(decided).decision.tier = "SIMPLE"
    /\ ~IsNone(router.tier_targets.simple)
    /\ Val(router.tier_targets.simple).primary = router.default_target
    /\ Len(router.global_fallback_targets) = 2
    /\ Val(router.tier_targets.simple).fallback = router.global_fallback_targets
    /\ Len(Val(decided).decision.chain) < 5

\* C2: the response chat returns is that of the first target, in chain order,
\* whose client could be obtained and whose response is not a backend failure:
\* every earlier target was skipped or returned a failure, chat returns as soon
\* as that response is obtained, and no later chain target is looked up,
\* constructed or invoked.
C2_FirstSuccessWins ==
    \A c \in Calls :
        LET call == calls[c]
            log == call.log
        IN  /\ \A j \in 1..Len(log) :
                   (~IsNone(log[j].resp) /\ ~IsFailure(Val(log[j].resp))) =>
                       /\ j = Len(log)
                       /\ call.pc = "returned"
                       /\ call.response = log[j].resp
            /\ Succeeded(c) =>
                   /\ Len(log) > 0
                   /\ log[Len(log)].resp = call.response
                   /\ Val(call.response).origin = <<c, log[Len(log)].pos>>
                   /\ \A j \in 1..Len(log) : log[j].pos <= log[Len(log)].pos
                   /\ \A i \in 1..(log[Len(log)].pos - 1) :
                          \E j \in 1..Len(log) :
                              /\ log[j].pos = i
                              /\ \/ log[j].ev = "skip"
                                 \/ /\ ~IsNone(log[j].resp)
                                    /\ IsFailure(Val(log[j].resp))

\* A call that returned the success of its third target, after a skipped and
\* a failed one, with a fourth target left untried.
C2_Witness ==
    \E c \in Calls :
        /\ Succeeded(c)
        /\ Val(calls[c].response).origin = <<c, 3>>
        /\ Len(ChainOf(c)) = 4
        /\ Skips(calls[c].log) # {}
        /\ Fails(calls[c].log) # {}

\* C3: within one chat call the backend invocations happen one at a time in
\* chain order: chain[j] is invoked only after every earlier position was
\* skipped or returned a failure, at most one invocation is in flight, and
\* each chain position is attempted at most once.
C3_SequentialInOrder ==
    \A c \in Calls :
        LET call == calls[c]
            log == call.log
            inFlight == Cardinality(Invokes(log)) - Cardinality(Results(log))
        IN  /\ \A j, k \in Invokes(log) \cup Skips(log) : j < k => log[j].pos < log[k].pos
            /\ \A k \in Invokes(log) :
                   \A i \in 1..(log[k].pos - 1) :
                       \E j \in 1..(k - 1) : log[j].pos = i /\ log[j].ev \in {"skip", "fail"}
            /\ \A k \in Results(log) :
                   k > 1 /\ log[k - 1].ev = "invoke" /\ log[k - 1].pos = log[k].pos
            /\ inFlight \in {0, 1}
            /\ inFlight = 1 <=> call.pc = "awaiting"
            /\ call.pc = "awaiting" =>
                   log[Len(log)].ev = "invoke" /\ log[Len(log)].pos = call.idx

\* A call suspended in the invocation of its third target, the first having
\* been skipped and the second having failed, while another call is suspended.
C3_Witness ==
    \E c, d \in Calls :
        /\ c # d
        /\ calls[c].pc = "awaiting"
        /\ calls[d].pc = "awaiting"
        /\ calls[c].idx = 3
        /\ Skips(calls[c].log) # {}
        /\ Fails(calls[c].log) # {}

\* C4: if at least one target was attempted and every attempted target
\* returned a failure, chat returns the error response of the last attempted
\* target, as chat holds it (not an earlier failure, not a synthesized one).
C4_LastErrorReturned ==
    \A c \in Calls :
        LET call == calls[c]
            log == call.log
        IN  ( /\ Returned(c)
              /\ Results(log) # {}
              /\ \A j \in Results(log) :
                     ~IsNone(log[j].resp) /\ IsFailure(Val(log[j].resp)) ) =>
                /\ call.response = log[Last(Results(log))].resp
                /\ Val(call.response).origin = <<c, log[Last(Results(log))].pos>>
                /\ IsFailure(Val(call.response))

\* A call that returned after two failures and a skip.
C4_Witness ==
    \E c \in Calls :
        /\ Returned(c)
        /\ ~Succeeded(c)
        /\ Cardinality(Fails(calls[c].log)) >= 2
        /\ Skips(calls[c].log) # {}

\* C5: if no chain target is attempted (every target is skipped), chat returns
\* a synthesized response with finishReason "error" whose model and provider
\* are those of the dispatcher's configured default target, also when the
\* caller supplied a preferred model.
C5_NoRouteNamesDefault ==
    \A c \in Calls :
        LET call == calls[c]
        IN  (Returned(c) /\ Results(call.log) = {}) =>
                /\ Val(call.response).finish_reason = "error"
                /\ Val(call.response).model = default_target.model
                /\ Val(call.response).provider = default_target.provider
                /\ Val(call.response).origin = <<c, 0>>
                /\ default_target = T_gpt_openai

\* A call with an explicit model whose every target was skipped.
C5_Witness ==
    \E c \in Calls :
        /\ Returned(c)
        /\ Results(calls[c].log) = {}
        /\ Len(calls[c].log) = Len(ChainOf(c))
        /\ ~IsNone(calls[c].model)
        /\ Val(calls[c].decision).primary # default_target

\* C6: chat never propagates an exception to its caller, whatever the backend
\* clients do, a backend client's chat raising included: the call ends by
\* returning a response.
C6_ChatNeverRaises ==
    \A c \in Calls : calls[c].pc # "raised"

\* C7: a target for which the client cache returns none is skipped: no
\* backend is invoked for it, lastError is left as it was, traversal goes on
\* with the next chain target, and the skipped target does not determine the
\* returned response when some other target was attempted.
C7_SkipIsSilent ==
    \A c \in Calls :
        LET call == calls[c]
            log == call.log
        IN  /\ \A j \in Skips(log) :
                   /\ log[j].client = 0
                   /\ \A k \in 1..Len(log) : log[k].pos = log[j].pos => k = j
                   /\ log[j].pos < Len(ChainOf(c)) =>
                          j < Len(log) /\ log[j + 1].pos = log[j].pos + 1
            /\ call.last_error =
                   IF Fails(log) = {} THEN NoneV ELSE log[Last(Fails(log))].resp
            /\ (Returned(c) /\ Results(log) # {}) =>
                   \E j \in Results(log) :
                       /\ call.response = log[j].resp
                       /\ Val(call.response).origin = <<c, log[j].pos>>

\* A call that returned a recorded failure after skipping its first target.
C7_Witness ==
    \E c \in Calls :
        /\ Returned(c)
        /\ \E j \in Skips(calls[c].log), k \in Fails(calls[c].log) : j < k
        /\ ~IsNone(calls[c].last_error)

CacheKeyOf(client) == <<client.provider_name, client.default_model>>

\* C8: a (providerName, model) key once inserted into the client cache is
\* never removed and never rebound: every client ever constructed is still the
\* one the cache holds under its key, so at most one client is constructed per
\* key, and a later lookup of the key returns that client.
C8_CacheStable ==
    /\ \A i \in 1..Len(constructed) :
           /\ CacheKeyOf(constructed[i]) \in DOMAIN providers_cache
           /\ providers_cache[CacheKeyOf(constructed[i])] = constructed[i]
    /\ \A k \in DOMAIN providers_cache :
           \E i \in 1..Len(constructed) : constructed[i] = providers_cache[k]
    /\ \A c \in Calls : \A j \in Invokes(calls[c].log) :
           /\ calls[c].log[j].client \in 1..Len(constructed)
           /\ CacheKeyOf(constructed[calls[c].log[j].client]) =
                  <<ResolveProviderName(config, ChainOf(c)[calls[c].log[j].pos]),
                    ChainOf(c)[calls[c].log[j].pos].model>>

\* A fallback retry on a cached key: one call invoked the same client at two
\* chain positions, the second lookup constructing nothing.
C8_Witness ==
    \E c \in Calls :
        \E j, k \in Invokes(calls[c].log) :
            /\ j < k
            /\ calls[c].log[j].client = calls[c].log[k].client
            /\ calls[c].log[j].made
            /\ ~calls[c].log[k].made

\* C9: under any interleaving of concurrent chat calls every cache entry maps
\* its key to a client constructed for exactly that provider name and model,
\* and every call that is invoking a client holds the client the cache has
\* under the key of its target.
C9_CacheEntriesMatchKeys ==
    /\ \A k \in DOMAIN providers_cache :
           /\ providers_cache[k].provider_name = k[1]
           /\ providers_cache[k].default_model = k[2]
    /\ \A c \in Calls :
           calls[c].pc = "awaiting" =>
               LET target == ChainOf(c)[calls[c].idx]
                   key == <<ResolveProviderName(config, target), target.model>>
               IN  /\ key \in DOMAIN providers_cache
                   /\ providers_cache[key] = Val(calls[c].provider)
                   /\ Val(calls[c].provider).provider_name = key[1]
                   /\ Val(calls[c].provider).default_model = target.model

\* Two calls suspended at once in invocations of the client of one key, while
\* the cache holds a client of another model of the same provider.
C9_Witness ==
    \E c, d \in Calls :
        /\ c # d
        /\ calls[c].pc = "awaiting"
        /\ calls[d].pc = "awaiting"
        /\ calls[c].provider = calls[d].provider
        /\ \E k \in DOMAIN providers_cache :
               /\ k[1] = Val(calls[c].provider).provider_name
               /\ k[2] # Val(calls[c].provider).default_model

AllEnded == \A c \in Calls : calls[c].pc \in {"returned", "raised", "cancelled"}

\* The value of provider_name had the calls completed in the order of their
\* numbers: the provider of the last of them that succeeded.
InOrderProviderName ==
    LET S == {c \in Calls : Succeeded(c)}
    IN  IF S = {} THEN "openai" ELSE Val(calls[Last(S)].response).provider

\* C10 as stated: no dispatcher field other than the cache has a final value
\* that depends on the order in which concurrent chat calls complete; so the
\* final provider_name is the one of the in-order completion.
C10_FinalStateOrderIndependent ==
    AllEnded => provider_name = InOrderProviderName

\* C10 as amended: a chat call writes the client cache and the last-successful
\* provider name and no other dispatcher field; provider_name changes only in
\* the step in which a call returns a non-failure response, to the provider
\* of that response.
C10_OnlyCacheAndLastProvider ==
    [][ /\ config' = config
        /\ scoring_config' = scoring_config
        /\ router' = router
        /\ routing_enabled' = routing_enabled
        /\ default_target' = default_target
        /\ provider_name' # provider_name =>
               \E c \in Calls :
                   /\ calls[c].pc = "awaiting"
                   /\ calls'[c].pc = "returned"
                   /\ ~IsFailure(Val(calls'[c].response))
                   /\ provider_name' = Val(calls'[c].response).provider
                   /\ provider_name' = Val(calls[c].provider).provider_name ]_vars

\* Two calls succeeded on different providers and the one that completed last
\* is not the one with the higher number.
C10_Witness ==
    /\ Succeeded(1)
    /\ Succeeded(2)
    /\ Val(calls[1].response).provider # Val(calls[2].response).provider
    /\ provider_name = Val(calls[1].response).provider

\* C11: when the caller cancels a chat call whose backend invocation is
\* suspended, the cancellation leaves chat: the step changes neither the cache
\* nor the clients constructed, every cache entry stays bound to its own key,
\* what the call recorded for its earlier targets is kept as it was, and the
\* cancelled call never resolves or invokes a further target.
C11_CancelLeavesStateIntact ==
    [][ \A c \in Calls :
            /\ (calls[c].pc = "awaiting" /\ calls'[c].pc = "cancelled") =>
                   /\ providers_cache' = providers_cache
                   /\ constructed' = constructed
                   /\ \A k \in DOMAIN providers_cache' :
                          /\ providers_cache'[k].provider_name = k[1]
                          /\ providers_cache'[k].default_model = k[2]
                   /\ Len(calls'[c].log) = Len(calls[c].log) + 1
                   /\ SubSeq(calls'[c].log, 1, Len(calls[c].log)) = calls[c].log
                   /\ calls'[c].log[Len(calls'[c].log)].ev = "cancel"
                   /\ calls'[c].log[Len(calls'[c].log)].pos = calls[c].idx
            /\ calls[c].pc = "cancelled" => calls'[c] = calls[c] ]_vars

\* A call cancelled in the invocation of a target that is not the last of its
\* chain, after it recorded a failure, while the other call went on to finish
\* and the cache holds two clients.
C11_Witness ==
    \E c, d \in Calls :
        /\ c # d
        /\ calls[c].pc = "cancelled"
        /\ Fails(calls[c].log) # {}
        /\ calls[c].idx < Len(ChainOf(c))
        /\ calls[d].pc = "returned"
        /\ Cardinality(DOMAIN providers_cache) >= 2

\* The indices of the first occurrences of the (provider, model) pairs.
KeptIndices(targets) ==
    {i \in 1..Len(targets) : \A j \in 1..(i - 1) : ~SamePair(targets[j], targets[i])}

\* chain is targets with every repetition of a (provider, model) pair removed,
\* order kept.
IsDedupeOf(chain, targets) ==
    LET keep == KeptIndices(targets)
    IN  /\ Len(chain) = Cardinality(keep)
        /\ \A k \in 1..Len(chain) :
               chain[k] = targets[CHOOSE i \in keep : Cardinality({j \in keep : j <= i}) = k]

\* The effective default of the recorded decide call.
DecidedDefault ==
    IF IsNone(Val(decided).preferred_target) THEN router.default_target
    ELSE Val(Val(decided).preferred_target)

\* The route table entry of the tier of the recorded decision (optional).
DecidedTierEntry ==
    LET t == Val(decided).decision.tier
    IN  CASE t = "SIMPLE" -> router.tier_targets.simple
          [] t = "MEDIUM" -> router.tier_targets.medium
          [] t = "COMPLEX" -> router.tier_targets.complex
          [] t = "REASONING" -> router.tier_targets.reasoning
          [] OTHER -> NoneV

\* C12: with forceDefault true, decide returns primary = the effective default
\* (the preferred target if given, else the route table default), chain =
\* dedupe([effectiveDefault] + globalFallbacks), reason "routing disabled" and
\* tier none, and nothing of a classification (score, confidence, signals) is
\* in the decision, for every query and tier table.
C12_ForcedDefault ==
    (~IsNone(decided) /\ Val(decided).force_default) =>
        LET d == Val(decided).decision
        IN  /\ d.primary = DecidedDefault
            /\ IsDedupeOf(d.chain, <<DecidedDefault>> \o router.global_fallback_targets)
            /\ d.reason = "routing disabled"
            /\ d.tier = ""
            /\ d.score = 0
            /\ d.confidence = 0
            /\ d.signals = NoneV
            /\ d.agentic_score = 0

\* A forced decision for a preferred target and a query that the classifier
\* sends to a configured REASONING tier; a global fallback repeats the
\* preferred target.
C12_Witness ==
    /\ ~IsNone(decided)
    /\ Val(decided).force_default
    /\ Val(decided).query = Some(TxtWhy)
    /\ Val(decided).preferred_target = Some(T_gpt_noprov)
    /\ ~IsNone(router.tier_targets.reasoning)
    /\ router.global_fallback_targets = <<T_claude, T_gpt_noprov>>
    /\ Val(decided).decision.chain = <<T_gpt_noprov, T_claude>>

\* C13: with forceDefault false and a classified tier that has a route table
\* entry, primary is that tier's primary and chain = dedupe([tier.primary] +
\* tier.fallback + globalFallbacks) whatever the preferred target is; the
\* effective default (hence the preferred target) is primary when the tier is
\* none or the tier has no entry.
C13_TierBeatsPreferred ==
    (~IsNone(decided) /\ ~Val(decided).force_default) =>
        LET d == Val(decided).decision
            entry == DecidedTierEntry
        IN  IF d.tier # "" /\ ~IsNone(entry)
            THEN /\ d.primary = Val(entry).primary
                 /\ IsDedupeOf(d.chain, <<Val(entry).primary>> \o Val(entry).fallback
                                          \o router.global_fallback_targets)
            ELSE /\ d.primary = DecidedDefault
                 /\ IsDedupeOf(d.chain, <<DecidedDefault>> \o router.global_fallback_targets)

\* A decision for the SIMPLE tier whose entry differs from the preferred
\* target the caller gave.
C13_Witness ==
    /\ ~IsNone(decided)
    /\ ~Val(decided).force_default
    /\ Val(decided).decision.tier = "SIMPLE"
    /\ ~IsNone(router.tier_targets.simple)
    /\ Val(decided).preferred_target = Some(T_mini_openai)
    /\ Val(decided).decision.primary = T_claude
    /\ Len(Val(router.tier_targets.simple).fallback) = 2

\* The reasoning override applies to a classified request: its user text
\* alone holds at least 2 distinct reasoning keywords.
Override(rec) ==
    Cardinality({kw \in {"reason", "step by step", "prove", "analyze", "compare", "why"} :
                    kw \in rec.prompt.words}) >= 2

\* C14 as stated: for every classification, a reported confidence below
\* confidence_threshold comes with tier none; and every decide with
\* forceDefault false whose classification has tier none has the effective
\* default as primary and no tier fallback in its chain.
C14_AmbiguityGate ==
    /\ \A rec \in classified :
           rec.result.confidence < scoring_config.confidence_threshold =>
               rec.result.tier = ""
    /\ (~IsNone(decided) /\ ~Val(decided).force_default
           /\ Val(decided).decision.tier = "") =>
           /\ Val(decided).decision.primary = DecidedDefault
           /\ IsDedupeOf(Val(decided).decision.chain,
                         <<DecidedDefault>> \o router.global_fallback_targets)

\* C14 as amended: for every classification to which the reasoning override
\* does not apply, a reported confidence below confidence_threshold comes with
\* tier none (under the override the tier is REASONING also below the
\* threshold); and every decide with forceDefault false whose classification
\* has tier none has the effective default as primary and no tier fallback in
\* its chain.
C14_GateExceptOverride ==
    /\ \A rec \in classified :
           /\ (~Override(rec)
                  /\ rec.result.confidence < scoring_config.confidence_threshold) =>
                  rec.result.tier = ""
           /\ Override(rec) => rec.result.tier = "REASONING"
    /\ (~IsNone(decided) /\ ~Val(decided).force_default
           /\ Val(decided).decision.tier = "") =>
           /\ Val(decided).decision.primary = DecidedDefault
           /\ IsDedupeOf(Val(decided).decision.chain,
                         <<DecidedDefault>> \o router.global_fallback_targets)

\* An ambiguous classification (no override, confidence below the threshold),
\* and an ambiguous decision that fell back to the preferred target although
\* the table has a SIMPLE entry.
C14_Witness ==
    /\ \E rec \in classified :
           /\ ~Override(rec)
           /\ rec.result.confidence < scoring_config.confidence_threshold
           /\ rec.result.score < scoring_config.tier_boundaries.simple_medium
    /\ ~IsNone(decided)
    /\ Val(decided).decision.tier = ""
    /\ Val(decided).preferred_target = Some(T_mini_openai)
    /\ Val(decided).decision.primary = T_mini_openai
    /\ ~IsNone(router.tier_targets.simple)

\* C15: a user text that alone holds at least 2 distinct reasoning keywords is
\* classified REASONING with confidence max(calibrate(max(weightedScore, 0.3),
\* steepness), 0.85), at least 0.85, whatever the weighted score, the
\* boundaries and the token count; without them in the user text the override
\* does not apply: REASONING is reported only for a score at or above the
\* complex_reasoning boundary and with a confidence that passes the threshold.
C15_ReasoningOverride ==
    \A rec \in classified :
        /\ Override(rec) =>
               /\ rec.result.tier = "REASONING"
               /\ rec.result.confidence =
                      Max(calibrate_confidence(Max(rec.result.score, 300),
                                               scoring_config.confidence_steepness), 85)
               /\ rec.result.confidence >= 85
        /\ ~Override(rec) =>
               (rec.result.tier = "REASONING" =>
                    /\ rec.result.score >= scoring_config.tier_boundaries.complex_reasoning
                    /\ rec.result.confidence >= scoring_config.confidence_threshold)

\* An overridden classification with a weighted score in the SIMPLE range and
\* confidence 0.85 next to a classification whose reasoning keywords are in
\* the system text only and that is not REASONING.
C15_Witness ==
    \E a, b \in classified :
        /\ Override(a)
        /\ a.result.score < scoring_config.tier_boundaries.simple_medium
        /\ a.result.tier = "REASONING"
        /\ a.result.confidence = 85
        /\ ~Override(b)
        /\ b.system_prompt = Some(TxtReasonSys)
        /\ b.result.tier \notin {"REASONING", ""}

TierRank(tier) ==
    CASE tier = "SIMPLE" -> 1 [] tier = "MEDIUM" -> 2 [] tier = "COMPLEX" -> 3
      [] tier = "REASONING" -> 4

\* C16: under one config, of two classifications that differ in the weighted
\* score only (both under the override or both not), the one with the higher
\* score never reports a lower tier in the order SIMPLE < MEDIUM < COMPLEX <
\* REASONING.
C16_BoundaryMonotone ==
    \A a, b \in classified :
        ( /\ Override(a) = Override(b)
          /\ a.result.tier # ""
          /\ b.result.tier # ""
          /\ a.result.score < b.result.score ) =>
            TierRank(a.result.tier) <= TierRank(b.result.tier)

\* Two classifications on the two sides of a boundary: MEDIUM and, for a
\* higher score, COMPLEX.
C16_Witness ==
    \E a, b \in classified :
        /\ ~Override(a)
        /\ ~Override(b)
        /\ a.result.score < b.result.score
        /\ a.result.tier = "MEDIUM"
        /\ b.result.tier = "COMPLEX"

\* A request with no match in any keyword, multi-step or question dimension.
NoMatch(prompt, system_prompt) ==
    /\ prompt.words = {}
    /\ ~prompt.multi
    /\ prompt.qmarks <= 3
    /\ IsNone(system_prompt)

\* C18: with the default scoring config, a request with token estimate 50 and
\* no match in any keyword, multi-step or question dimension is classified
\* SIMPLE, and decide routes it to the SIMPLE tier's primary when that tier is
\* configured, else to the default target.
C18_ShortPlainIsSimple ==
    scoring_config = DefaultScoringConfig =>
        /\ \A rec \in classified :
               (rec.estimated_tokens = 50 /\ NoMatch(rec.prompt, rec.system_prompt)) =>
                   rec.result.tier = "SIMPLE"
        /\ ( /\ ~IsNone(decided)
             /\ ~Val(decided).force_default
             /\ Val(decided).estimated_tokens = 50
             /\ NoMatch(Val(Val(decided).query), Val(decided).system_prompt) ) =>
               Val(decided).decision.primary =
                   IF IsNone(router.tier_targets.simple) THEN router.default_target
                   ELSE Val(router.tier_targets.simple).primary

C19_FailureIffErrorShape ==
    \A c \in Calls :
        \A j \in 1..Len(calls[c].log) :
            LET event == calls[c].log[j]
            IN  event.ev \in {"fail", "ok"} =>
                    /\ ~IsNone(event.resp)
                    /\ event.ev = "fail" <=> IsFailure(Val(event.resp))
                    /\ event.ev = "ok" =>
                           /\ j = Len(calls[c].log)
                           /\ calls[c].pc = "returned"
                           /\ calls[c].response = event.resp

\* A call that recorded a failure for the prefix alone and one for the finish
\* reason alone and then returned a response without content.
C19_Witness ==
    \E c \in Calls :
        /\ Returned(c)
        /\ Val(calls[c].response).content = <<>>
        /\ Val(calls[c].response).finish_reason = "tool_calls"
        /\ \E j, k \in Fails(calls[c].log) :
               /\ Val(calls[c].log[j].resp).finish_reason = "stop"
               /\ Val(calls[c].log[k].resp).content = <<"overloaded">>

\* C20: every response chat takes from a backend carries the provider name of
\* the client that produced it, and the backend-reported model when that is
\* set, else the attempted target's model; the response chat returns after
\* invoking a backend is one of these.
C20_Stamped ==
    [][ \A c \in Calls :
            LET n == Len(calls[c].log) + 1
            IN  ( /\ calls[c].pc = "awaiting"
                  /\ Len(calls'[c].log) >= n
                  /\ calls'[c].log[n].ev \in {"fail", "ok"} ) =>
                    LET resp == Val(calls'[c].log[n].resp)
                        target == ChainOf(c)[calls[c].idx]
                        client == Val(calls[c].provider)
                    IN  /\ resp.provider = client.provider_name
                        /\ client = constructed[client.id]
                        /\ \E raw \in BackendResponses :
                               /\ resp.content = raw.content
                               /\ resp.finish_reason = raw.finish_reason
                               /\ resp.model = IF raw.model = <<>> THEN target.model
                                               ELSE raw.model
                        /\ (calls'[c].pc = "returned") =>
                               \E j \in 1..Len(calls'[c].log) :
                                   /\ calls'[c].log[j].ev \in {"fail", "ok"}
                                   /\ calls'[c].response = calls'[c].log[j].resp ]_vars

\* A call that recorded a failure carrying the model the backend reported and
\* returned the response of a target that names no provider: it carries the
\* provider name of the client and the target's model.
C20_Witness ==
    \E c \in Calls :
        /\ Returned(c)
        /\ \E j \in 1..Len(calls[c].log) :
               /\ calls[c].log[j].ev = "fail"
               /\ Val(calls[c].log[j].resp).model = <<"backend", "model">>
        /\ LET resp == Val(calls[c].response)
               target == ChainOf(c)[resp.origin[2]]
           IN  /\ resp.origin[2] > 0
               /\ target.provider = ""
               /\ resp.provider = "openai"
               /\ resp.model = target.model

\* C21: the last-successful provider name changes only in the step in which a
\* chat call returns a non-failure response, and is then the provider name of
\* the client that produced the response; every other step (a call returning a
\* failure, a skipped target, a raise, a cancellation, describe_routing and
\* the router's own calls) leaves it as it was.
C21_LastProviderFrame ==
    [][ LET Won(c) == /\ calls[c].pc = "awaiting"
                      /\ calls'[c].pc = "returned"
                      /\ ~IsFailure(Val(calls'[c].response))
        IN  /\ \A c \in Calls :
                   Won(c) => provider_name' = Val(calls[c].provider).provider_name
            /\ (~\E c \in Calls : Won(c)) => provider_name' = provider_name ]_vars

\* describe_routing was called and a chat call, after a skipped target and a
\* failure of the openai client, returned the success of the anthropic client:
\* the name moved from "openai" to "anthropic".
C21_Witness ==
    /\ ~IsNone(decided)
    /\ Succeeded(1)
    /\ Skips(calls[1].log) # {}
    /\ Fails(calls[1].log) # {}
    /\ Val(calls[1].response).provider = "anthropic"
    /\ provider_name = "anthropic"

\* The provider configuration that exists for a provider name: the section of
\* the providers configuration the trimmed, lower-cased name denotes.
ConfigFor(name) ==
    IF NormalizeChars(name) \in DOMAIN config.providers
    THEN Some(config.providers[NormalizeChars(name)])
    ELSE NoneV

\* The model id starts with "bedrock/".
IsBedrock(model) == Len(model) > 1 /\ Head(model) = "bedrock"

\* No client can be made for the resolved name and model of a recorded call.
NoClientFor(rec) ==
    \/ rec.provider_name = ""
    \/ IsNone(ConfigFor(rec.provider_name))
    \/ /\ Val(ConfigFor(rec.provider_name)).api_key = ""
       /\ ~IsBedrock(rec.target.model)

\* C22: _get_provider(target) returns None and leaves the client cache as it
\* was when the resolved provider name is empty, when no provider
\* configuration exists for the name, or when the configuration has no API key
\* and the model id does not start with "bedrock/"; in every other case, for
\* a key that is not cached, it constructs one client, inserts it under
\* (provider name, target.model) and returns it.
C22_NoneOrConstructed ==
    \A i \in 1..Len(looked) :
        LET rec == looked[i]
            key == <<rec.provider_name, rec.target.model>>
        IN  IF NoClientFor(rec)
            THEN /\ IsNone(rec.provider)
                 /\ rec.after = rec.before
                 /\ rec.made = 0
            ELSE key \notin DOMAIN rec.before =>
                     /\ ~IsNone(rec.provider)
                     /\ rec.made = 1
                     /\ DOMAIN rec.after = DOMAIN rec.before \cup {key}
                     /\ rec.after[key] = Val(rec.provider)
                     /\ \A k \in DOMAIN rec.before : rec.after[k] = rec.before[k]
                     /\ Val(rec.provider).provider_name = rec.provider_name
                     /\ Val(rec.provider).default_model = rec.target.model

\* With no key configured: a lookup that returned None for a configured
\* provider without key, and a lookup that constructed the keyless client of
\* a bedrock/ model next to it.
C22_Witness ==
    \E i, j \in 1..Len(looked) :
        /\ looked[i].provider_name # ""
        /\ ~IsNone(ConfigFor(looked[i].provider_name))
        /\ IsNone(looked[i].provider)
        /\ looked[j].made = 1
        /\ Val(looked[j].provider).api_key = ""
        /\ IsBedrock(looked[j].target.model)
        /\ DOMAIN providers_cache = {<<looked[j].provider_name, looked[j].target.model>>}

\* The provider name of a target as the claim resolves it: target.provider,
\* else the model-name-based match for target.model, else the provider of the
\* dispatcher's default target.
ClaimedProviderName(target) ==
    IF target.provider # "" THEN target.provider
    ELSE IF get_provider_name(config, Some(target.model)) # ""
    THEN get_provider_name(config, Some(target.model))
    ELSE default_target.provider

\* C23: _get_provider(target) resolves the provider name as target.provider
\* when it is non-empty, otherwise as the model-name-based provider match for
\* target.model, otherwise as the provider of the dispatcher's configured
\* default target, and the cache key is built from this resolved name.
C23_ResolvedName ==
    \A i \in 1..Len(looked) :
        /\ looked[i].provider_name = ClaimedProviderName(looked[i].target)
        /\ ~IsNone(looked[i].provider) =>
               /\ <<ClaimedProviderName(looked[i].target), looked[i].target.model>>
                      \in DOMAIN looked[i].after
               /\ looked[i].after[<<ClaimedProviderName(looked[i].target),
                                    looked[i].target.model>>] = Val(looked[i].provider)

\* The registry entries of a provider name that are flagged as gateways and
\* carry a default API base.
GatewayDefaults(name) ==
    {i \in 1..Len(PROVIDERS) : /\ PROVIDERS[i].name = NormalizeChars(name)
                               /\ PROVIDERS[i].is_gateway
                               /\ PROVIDERS[i].default_api_base # ""}

\* The API base of a provider name as the claim resolves it ("" for none).
ClaimedApiBase(name) ==
    IF ~IsNone(ConfigFor(name)) /\ Val(ConfigFor(name)).api_base # ""
    THEN Val(ConfigFor(name)).api_base
    ELSE IF GatewayDefaults(name) # {}
    THEN PROVIDERS[CHOOSE i \in GatewayDefaults(name) : TRUE].default_api_base
    ELSE ""

\* C24: the API base bound to a newly constructed client is the explicit
\* per-provider override when one is configured; otherwise the registry
\* default only when the provider is flagged as a gateway; otherwise none.
C24_ApiBase ==
    \A i \in 1..Len(looked) :
        looked[i].made = 1 =>
            Val(looked[i].provider).api_base = ClaimedApiBase(looked[i].provider_name)

\* The route table entry of a tier (optional).
TierEntry(t) ==
    CASE t = "SIMPLE" -> router.tier_targets.simple
      [] t = "MEDIUM" -> router.tier_targets.medium
      [] t = "COMPLEX" -> router.tier_targets.complex
      [] t = "REASONING" -> router.tier_targets.reasoning
      [] OTHER -> NoneV

\* What the classifier returns for the arguments of the recorded decide call.
DecidedScoring ==
    classify_by_rules(scoring_config, OrEmpty(Val(decided).query),
                      Val(decided).system_prompt, Val(decided).estimated_tokens)

\* C25: with forceDefault false, when the classifier returns a tier that has
\* no route table entry, decide returns primary = effectiveDefault and chain =
\* dedupe([effectiveDefault] + globalFallbacks), no tier fallback in it, and
\* the decision still reports the classifier's tier, score and confidence,
\* with the reason that the tier target is missing.
C25_MissingTierEntry ==
    (/\ ~IsNone(decided)
     /\ ~Val(decided).force_default
     /\ DecidedScoring.tier # ""
     /\ IsNone(TierEntry(DecidedScoring.tier))) =>
        LET d == Val(decided).decision
        IN  /\ d.primary = DecidedDefault
            /\ IsDedupeOf(d.chain, <<DecidedDefault>> \o router.global_fallback_targets)
            /\ d.tier = DecidedScoring.tier
            /\ d.score = DecidedScoring.score
            /\ d.confidence = DecidedScoring.confidence
            /\ d.reason = "weighted scoring -> tier, but tier target missing; using default"

\* A request classified MEDIUM, a tier without entry in a table that has a
\* SIMPLE entry with two fallbacks and two global fallbacks: the decision is
\* for the preferred target and reports MEDIUM.
C25_Witness ==
    /\ ~IsNone(decided)
    /\ ~Val(decided).force_default
    /\ Val(decided).decision.tier = "MEDIUM"
    /\ IsNone(router.tier_targets.medium)
    /\ ~IsNone(router.tier_targets.simple)
    /\ Len(Val(router.tier_targets.simple).fallback) = 2
    /\ Len(router.global_fallback_targets) = 2
    /\ Val(decided).preferred_target = Some(T_mini_openai)
    /\ Val(decided).decision.primary = T_mini_openai
    /\ Val(decided).decision.confidence >= scoring_config.confidence_threshold

\* The tier fallbacks that went into the recorded decision.
DecidedTierFallback ==
    IF /\ ~Val(decided).force_default
       /\ Val(decided).decision.tier # ""
       /\ ~IsNone(DecidedTierEntry)
    THEN Val(DecidedTierEntry).fallback
    ELSE <<>>

\* The list the chain of the recorded decision was made from.
DecidedInput ==
    <<Val(decided).decision.primary>> \o DecidedTierFallback
        \o router.global_fallback_targets

\* The index of the first occurrence of the pair of target t in list.
FirstIndex(list, t) ==
    CHOOSE i \in 1..Len(list) :
        /\ SamePair(list[i], t)
        /\ \A j \in 1..(i - 1) : ~SamePair(list[j], t)

\* C26: the chain is the subsequence of [primary] + tier fallbacks +
\* globalFallbacks that keeps, for each (provider, model) pair, exactly its
\* first occurrence: every input pair appears exactly once in the chain, every
\* chain element is an input target, the kept targets stand in the order of
\* their first occurrences (so a tier fallback precedes every global fallback
\* that is not a repetition), and deduplicating the chain again changes
\* nothing.
C26_FirstOccurrences ==
    ~IsNone(decided) =>
        LET chain == Val(decided).decision.chain
            input == DecidedInput
            tiered == 1 + Len(DecidedTierFallback)
        IN  /\ \A i \in 1..Len(input) :
                   Cardinality({k \in 1..Len(chain) : SamePair(chain[k], input[i])}) = 1
            /\ \A k \in 1..Len(chain) :
                   /\ \E i \in 1..Len(input) : SamePair(input[i], chain[k])
                   /\ chain[k] = input[FirstIndex(input, chain[k])]
            /\ \A k, l \in 1..Len(chain) :
                   k < l => FirstIndex(input, chain[k]) < FirstIndex(input, chain[l])
            /\ \A k, l \in 1..Len(chain) :
                   (/\ FirstIndex(input, chain[k]) <= tiered
                    /\ FirstIndex(input, chain[l]) > tiered) => k < l
            /\ _dedupe_targets(chain) = chain

\* A SIMPLE decision whose tier fallbacks repeat the primary and whose global
\* fallbacks repeat a tier fallback: five input targets, three kept.
C26_Witness ==
    /\ ~IsNone(decided)
    /\ ~Val(decided).force_default
    /\ Val(decided).decision.tier = "SIMPLE"
    /\ DecidedInput = <<T_claude, T_gpt_openai, T_claude, T_gpt_openai, T_gpt_noprov>>
    /\ Val(decided).decision.chain = <<T_claude, T_gpt_openai, T_gpt_noprov>>

\* The candidate tier and the boundary distance of a score, by the four-way
\* partition of the score line: <<tier, distance>>.
PartitionOf(score, b) ==
    CASE score < b.simple_medium ->
             <<"SIMPLE", b.simple_medium - score>>
      [] b.simple_medium <= score /\ score < b.medium_complex ->
             <<"MEDIUM", Min(score - b.simple_medium, b.medium_complex - score)>>
      [] b.medium_complex <= score /\ score < b.complex_reasoning ->
             <<"COMPLEX", Min(score - b.medium_complex, b.complex_reasoning - score)>>
      [] score >= b.complex_reasoning ->
             <<"REASONING", score - b.complex_reasoning>>

\* C27: when the reasoning override does not fire, the candidate tier and the
\* boundary distance follow the four-way partition of the score line, a score
\* exactly on a boundary belonging to the upper tier: the reported confidence
\* is the calibration of the partition's distance, and the reported tier is
\* the partition's tier when the confidence passes the threshold (none
\* otherwise).
C27_FourWayPartition ==
    \A rec \in classified :
        ~Override(rec) =>
            LET td == PartitionOf(rec.result.score, scoring_config.tier_boundaries)
            IN  /\ rec.result.confidence =
                       calibrate_confidence(td[2], scoring_config.confidence_steepness)
                /\ rec.result.tier =
                       IF rec.result.confidence < scoring_config.confidence_threshold
                       THEN "" ELSE td[1]

\* Two classifications, one with its score on the simple_medium boundary and
\* reported MEDIUM, one with its score on the medium_complex boundary and
\* reported COMPLEX.
C27_Witness ==
    \E r1, r2 \in classified :
        /\ ~Override(r1)
        /\ ~Override(r2)
        /\ r1.result.score = scoring_config.tier_boundaries.simple_medium
        /\ r1.result.tier = "MEDIUM"
        /\ r2.result.score = scoring_config.tier_boundaries.medium_complex
        /\ r2.result.tier = "COMPLEX"

\* The dimension scores classify_by_rules computes for a recorded call, and
\* the one of a dimension name among them.
DimensionsOf(rec) ==
    Dimensions(scoring_config, rec.prompt, rec.system_prompt, rec.estimated_tokens)
DimensionOf(dims, name) == dims[CHOOSE i \in 1..Len(dims) : dims[i].name = name]

\* The keyword-match dimensions: name, keywords, {low, high} thresholds in
\* match counts and {none, low, high} scores in 1/10.
KeywordDimension(name, keywords, low, high, s_none, s_low, s_high) ==
    [name |-> name, keywords |-> SeqToSet(keywords), low |-> low, high |-> high,
     s_none |-> s_none, s_low |-> s_low, s_high |-> s_high]

KeywordDimensions ==
    { KeywordDimension("codePresence", code_keywords, 1, 2, 0, 5, 10),
      KeywordDimension("reasoningMarkers", reasoning_keywords, 1, 2, 0, 7, 10),
      KeywordDimension("technicalTerms", technical_keywords, 2, 4, 0, 5, 10),
      KeywordDimension("creativeMarkers", creative_keywords, 1, 2, 0, 5, 7),
      KeywordDimension("simpleIndicators", simple_keywords, 1, 2, 0, -10, -10),
      KeywordDimension("imperativeVerbs", imperative_verbs, 1, 2, 0, 3, 5),
      KeywordDimension("constraintCount", constraint_indicators, 1, 3, 0, 3, 7),
      KeywordDimension("outputFormat", output_format_keywords, 1, 2, 0, 4, 7),
      KeywordDimension("referenceComplexity", reference_keywords, 1, 2, 0, 3, 5),
      KeywordDimension("negationComplexity", negation_keywords, 2, 3, 0, 3, 5),
      KeywordDimension("domainSpecificity", domain_specific_keywords, 1, 2, 0, 5, 8) }

UserOnlyDimensions == {"reasoningMarkers", "simpleIndicators"}

\* The system text and the user text of a recorded call, as sets of keywords.
SystemWords(rec) == OrEmpty(rec.system_prompt).words
CombinedWords(rec) == SystemWords(rec) \cup rec.prompt.words

\* The number of keywords of dimension d among words.
MatchCount(d, words) == Cardinality(d.keywords \cap words)

\* C28: the reasoning-markers and simple-indicators dimensions are scored
\* against the user text only: their score and signal are those of the same
\* request without system text, so a reasoning or simple keyword that occurs
\* only in the system text changes neither; every other keyword dimension is
\* scored against the combined system + user text: a keyword of the system
\* text counts as a match.
C28_UserTextOnly ==
    \A rec \in classified :
        LET dims == DimensionsOf(rec)
            user == DimensionsOf([rec EXCEPT !.system_prompt = NoneV])
        IN  /\ \A name \in UserOnlyDimensions :
                   DimensionOf(dims, name) = DimensionOf(user, name)
            /\ \A d \in KeywordDimensions :
                   (/\ d.name \notin UserOnlyDimensions
                    /\ MatchCount(d, CombinedWords(rec)) >= d.high) =>
                       DimensionOf(dims, d.name).score = d.s_high

\* The keywords of the text a keyword-match dimension is scored against: the
\* user text for the reasoning markers, the combined text for the others.
ScoredWords(rec, d) ==
    IF d.name = "reasoningMarkers" THEN rec.prompt.words ELSE CombinedWords(rec)

\* C29: each keyword-match dimension maps the number of its keywords found in
\* the text, through its {low, high} threshold pair, to one of three scores:
\* 0 matches gives the "none" score, a count >= low and below high gives the
\* "low" score, and a count >= high gives the "high" score, high taking
\* precedence over low.  (For the simple indicators the calls considered are
\* those whose user text and combined text hold the same simple keywords.)
C29_KeywordScores ==
    \A rec \in classified :
        LET dims == DimensionsOf(rec)
        IN  \A d \in KeywordDimensions :
                (d.name = "simpleIndicators" =>
                     d.keywords \cap SystemWords(rec) \subseteq rec.prompt.words) =>
                    LET n == MatchCount(d, ScoredWords(rec, d))
                        dim == DimensionOf(dims, d.name)
                    IN  /\ dim.score \in {d.s_none, d.s_low, d.s_high}
                        /\ n = 0 => dim.score = d.s_none /\ IsNone(dim.signal)
                        /\ (n >= d.low /\ n < d.high) =>
                               dim.score = d.s_low /\ ~IsNone(dim.signal)
                        /\ n >= d.high => dim.score = d.s_high /\ ~IsNone(dim.signal)

\* A request with four technical, three negation and three constraint
\* keywords under a system text with one code keyword: dimensions with the
\* high score (counts at and above the high threshold), the low score and the
\* none score in one classification.
C29_Witness ==
    \E rec \in classified :
        /\ MatchCount(CHOOSE d \in KeywordDimensions : d.name = "technicalTerms",
                      rec.prompt.words) = 4
        /\ ~IsNone(rec.system_prompt)
        /\ "python" \in SystemWords(rec)
        /\ "python" \notin rec.prompt.words
        /\ DimensionOf(DimensionsOf(rec), "technicalTerms").score = 10
        /\ DimensionOf(DimensionsOf(rec), "negationComplexity").score = 5
        /\ DimensionOf(DimensionsOf(rec), "constraintCount").score = 7
        /\ DimensionOf(DimensionsOf(rec), "codePresence").score = 5
        /\ DimensionOf(DimensionsOf(rec), "creativeMarkers").score = 0
        /\ Len(rec.result.signals) >= 4

\* The bucket value of a number of agentic keyword matches, in 1/10.
AgenticBucket(n) ==
    CASE n = 0 -> 0
      [] n \in {1, 2} -> 2
      [] n = 3 -> 6
      [] n >= 4 -> 10

\* The number of agentic keywords in the combined text of a recorded call.
AgenticMatches(rec) ==
    Cardinality(SeqToSet(agentic_task_keywords) \cap CombinedWords(rec))

\* C30: the agentic-task dimension scores by its own bucket scale (0 matches
\* gives 0, 1 or 2 give 0.2, 3 gives 0.6, 4 or more give 1.0), and the
\* agentic_score of the ScoringResult equals that bucket value on every return
\* path of classify_by_rules (override, ambiguous, tiered), with and without
\* an entry for the dimension in the weight map.
C30_AgenticBucket ==
    \A rec \in classified :
        /\ DimensionOf(DimensionsOf(rec), "agenticTask").score =
               AgenticBucket(AgenticMatches(rec))
        /\ rec.result.agentic_score = AgenticBucket(AgenticMatches(rec))

\* Under a weight map without agenticTask entry, a request with four agentic
\* keywords and two reasoning keywords: the override path reports 1.0.
C30_Witness ==
    \E rec \in classified :
        /\ "agenticTask" \notin DOMAIN scoring_config.dimension_weights
        /\ Override(rec)
        /\ AgenticMatches(rec) = 4
        /\ rec.result.tier = "REASONING"
        /\ rec.result.agentic_score = 10

\* C31: the token-count dimension scores -1 when estimatedTokens is below
\* thresholds.simple, +1 when it is above thresholds.complex and 0 otherwise
\* (both thresholds themselves score 0), and it emits a signal, which names
\* the token count, exactly when the score is non-zero.
C31_TokenCount ==
    \A rec \in classified :
        LET dim == DimensionOf(DimensionsOf(rec), "tokenCount")
            n == rec.estimated_tokens
            t == scoring_config.token_count_thresholds
        IN  /\ dim.score = (IF n < t.simple THEN -10 ELSE IF n > t.complex THEN 10 ELSE 0)
            /\ n \in {t.simple, t.complex} => dim.score = 0
            /\ IsNone(dim.signal) <=> dim.score = 0
            /\ ~IsNone(dim.signal) =>
                   /\ Val(dim.signal).n = n
                   /\ Val(dim.signal).label = (IF dim.score < 0 THEN "short" ELSE "long")
                   /\ rec.result.signals # <<>>
                   /\ rec.result.signals[1] = Val(dim.signal)
            /\ IsNone(dim.signal) =>
                   \A i \in 1..Len(rec.result.signals) :
                       rec.result.signals[i].label \notin {"short", "long"}

\* A classification at one token above thresholds.complex: score +1 and the
\* signal "long (2501 tokens)" first in the reported signals.
C31_Witness ==
    \E rec \in classified :
        /\ rec.estimated_tokens = scoring_config.token_count_thresholds.complex + 1
        /\ rec.estimated_tokens > scoring_config.token_count_thresholds.simple + 1
        /\ DimensionOf(DimensionsOf(rec), "tokenCount").score = 10
        /\ rec.result.signals[1] = Signal("long", <<>>, rec.estimated_tokens)

\* The dimension names in the order classify_by_rules evaluates them.
DimensionNames ==
    << "tokenCount", "codePresence", "reasoningMarkers", "technicalTerms",
       "creativeMarkers", "simpleIndicators", "multiStepPatterns", "questionComplexity",
       "imperativeVerbs", "constraintCount", "outputFormat", "referenceComplexity",
       "negationComplexity", "domainSpecificity", "agenticTask" >>

\* The dimensions with a non-zero score, in order.
NonZero(dims) == SelectSeq(dims, LAMBDA d : d.score # 0)

\* C32: the signals list of a ScoringResult contains exactly one signal for
\* each dimension whose score is non-zero and none for a dimension whose score
\* is zero, in dimension-evaluation order (token count first, agentic task
\* last), and each keyword signal names at most 3 matched keywords; the same
\* list is reported on the override, ambiguous and tiered return paths.
C32_SignalsList ==
    \A rec \in classified :
        LET dims == DimensionsOf(rec)
            fired == NonZero(dims)
            signals == rec.result.signals
        IN  /\ [i \in 1..Len(dims) |-> dims[i].name] = DimensionNames
            /\ \A i \in 1..Len(dims) : IsNone(dims[i].signal) <=> dims[i].score = 0
            /\ Len(signals) = Len(fired)
            /\ \A i \in 1..Len(fired) : signals[i] = Val(fired[i].signal)
            /\ \A i \in 1..Len(signals) :
                   /\ Len(signals[i].matches) <= 3
                   /\ SeqToSet(signals[i].matches) \subseteq CombinedWords(rec)
                   /\ Cardinality(SeqToSet(signals[i].matches)) = Len(signals[i].matches)

\* An override classification (two reasoning keywords in the user text) at 50
\* tokens whose text holds four agentic keywords: the token-count signal comes
\* first, the agentic signal last, naming three of the four keywords.
C32_Witness ==
    \E rec \in classified :
        /\ Override(rec)
        /\ rec.result.tier = "REASONING"
        /\ AgenticMatches(rec) = 4
        /\ Len(rec.result.signals) >= 3
        /\ rec.result.signals[1].label = "short"
        /\ rec.result.signals[Len(rec.result.signals)].label = "agentic"
        /\ Len(rec.result.signals[Len(rec.result.signals)].matches) = 3

\* The largest index of the set S, 0 when it is empty.
LatestIndex(S) == IF S = {} THEN 0 ELSE CHOOSE i \in S : \A j \in S : j <= i

\* The text of one user message: its string content, or its text parts joined.
UserTextOf(msg) ==
    IF msg.kind = "str" THEN msg.text
    ELSE IF TextParts(msg.parts) = <<>> THEN EmptyText
    ELSE JoinParts(TextParts(msg.parts))

\* The index of the latest user-role message.
LatestUser(messages) ==
    LatestIndex({i \in 1..Len(messages) : messages[i].role = "user"})

\* The index of the latest user-role message with string content or at least
\* one text part.
LatestUserWithText(messages) ==
    LatestIndex({i \in 1..Len(messages) :
                    /\ messages[i].role = "user"
                    /\ \/ messages[i].kind = "str"
                       \/ messages[i].kind = "list" /\ TextParts(messages[i].parts) # <<>>})

\* The system text of the claim: the first system-role message whose content
\* is a string, absent when there is none.
FirstSystemText(messages) ==
    LET S == {i \in 1..Len(messages) :
                 messages[i].role = "system" /\ messages[i].kind = "str"}
    IN  IF S = {} THEN NoneV
        ELSE Some(messages[CHOOSE i \in S : \A j \in S : i <= j].text)

\* The decision chat takes when the user text is that of message i (the empty
\* text for i = 0) and the system text is the first string system message.
DecisionFor(call, i) ==
    LET query == IF i = 0 THEN EmptyText ELSE UserTextOf(call.messages[i])
        system_prompt == FirstSystemText(call.messages)
    IN  decide(router, scoring_config, Some(query), system_prompt,
               _estimate_tokens(JoinText(OrEmpty(system_prompt), query)),
               PreferredTarget(config, call.model, default_target), ~routing_enabled)

\* C33 as stated: the user text chat classifies is taken from the latest
\* user-role message (its string content, or its text parts joined when the
\* content is structured) and earlier user messages never contribute; the
\* system text is the first system-role message whose content is a string, or
\* absent when there is none.
C33_LatestUserMessage ==
    \A c \in Calls :
        calls[c].pc # "idle" =>
            calls[c].decision =
                Some(DecisionFor(calls[c], LatestUser(calls[c].messages)))

\* C33, amended: the user text is taken from the latest user-role message that
\* has string content or at least one text part; an earlier user message
\* contributes only when no later user message has such content.
C33_LatestUserMessageWithText ==
    \A c \in Calls :
        calls[c].pc # "idle" =>
            calls[c].decision =
                Some(DecisionFor(calls[c], LatestUserWithText(calls[c].messages)))

\* A call whose latest user message holds an image part only, after a user
\* message with two reasoning keywords and before a second system message:
\* the request is classified by the earlier user message.
C33_Witness ==
    \E c \in Calls :
        /\ calls[c].pc # "idle"
        /\ routing_enabled
        /\ Len(calls[c].messages) = 3
        /\ calls[c].messages[1] = StrMessage("user", TxtWhy)
        /\ calls[c].messages[2] = ListMessage("user", <<Part("image_url", EmptyText)>>)
        /\ calls[c].messages[3] = StrMessage("system", TxtReasonSys)
        /\ Val(calls[c].decision).tier = "REASONING"

\* The decision the claim names for a described query: decide with no system
\* prompt, no preferred target and forceDefault = not routingEnabled.
DescribedDecision(query) ==
    decide(router, scoring_config, query, NoneV, _estimate_tokens(OrEmpty(query)), NoneV,
           ~routing_enabled)

\* The lines of one kind among the lines of a description, in order.
LinesOf(lines, kind) == SelectSeq(lines, LAMBDA l : l.kind = kind)

\* The lines of a description report the decision d.
Describes(lines, d) ==
    /\ Len(LinesOf(lines, "selected")) = 1
    /\ LinesOf(lines, "selected")[1].target = _format_target(d.primary)
    /\ LinesOf(lines, "selected")[1].text = d.reason
    /\ Len(LinesOf(lines, "fallback")) = Len(d.chain) - 1
    /\ \A i \in 1..Len(d.chain) - 1 :
           /\ LinesOf(lines, "fallback")[i].target = _format_target(d.chain[i + 1])
           /\ LinesOf(lines, "fallback")[i].n = i
    /\ Len(LinesOf(lines, "(none)")) = (IF Len(d.chain) = 1 THEN 1 ELSE 0)
    /\ Len(LinesOf(lines, "tier")) = (IF d.tier # "" THEN 1 ELSE 0)
    /\ Len(LinesOf(lines, "signals")) <= 1
    /\ \A i \in 1..Len(LinesOf(lines, "signals")) :
           /\ Len(LinesOf(lines, "signals")[i].items) <= 6
           /\ LinesOf(lines, "signals")[i].items =
                  SubSeq(Val(d.signals), 1, Len(LinesOf(lines, "signals")[i].items))
           /\ Len(LinesOf(lines, "signals")[i].items) < 6 =>
                  Len(Val(d.signals)) = Len(LinesOf(lines, "signals")[i].items)

\* C34: describeRouting(query) reports the decision decide makes for that
\* query with no system prompt, no preferred target and forceDefault = not
\* routingEnabled: its selected target is decision.primary, its enumerated
\* fallback chain is decision.chain without the first element in chain order
\* (or "(none)" when the chain has one element), the tier line appears only
\* when the decision has a tier, and at most 6 signals are listed.
C34_DescribeRouting ==
    (~IsNone(decided) /\ "lines" \in DOMAIN Val(decided)) =>
        Describes(Val(decided).lines, DescribedDecision(Val(decided).query))

\* A description under routing enabled of a query that fires more than six
\* dimensions and is routed to the REASONING entry: a tier line, two or more
\* fallbacks and six signals.
C34_Witness ==
    /\ ~IsNone(decided)
    /\ "lines" \in DOMAIN Val(decided)
    /\ routing_enabled
    /\ Val(decided).decision.tier = "REASONING"
    /\ Val(decided).decision.primary = T_claude
    /\ Len(Val(decided).decision.chain) >= 3
    /\ Len(Val(Val(decided).decision.signals)) > 6
    /\ Len(LinesOf(Val(decided).lines, "fallback")) >= 2
    /\ Len(LinesOf(Val(decided).lines, "signals")[1].items) = 6

\* C35: within one chat call no cached backend client is invoked more than
\* once, also when two chain targets that differ in their (provider, model)
\* pair (for example one with an empty provider field) resolve to the same
\* (providerName, model) cache key.
C35_ClientInvokedOnce ==
    \A c \in Calls :
        \A j, k \in Invokes(calls[c].log) :
            j # k => calls[c].log[j].client # calls[c].log[k].client

\* The boundary distance classify_by_rules passes to the calibration for a
\* recorded call, in 1/1000: max(score, 0.3) under the reasoning override.
DistanceOf(rec) ==
    IF Override(rec) THEN Max(rec.result.score, 300)
    ELSE TierOfScore(rec.result.score, scoring_config.tier_boundaries)[2]

\* The least steepness * distance whose confidence reaches the threshold t, in
\* 1/1000 (the thresholds considered are whole percents in 1..99).
Cutoff(t) == LogitTable[t]

\* C36: for every classification and every ordering of the three tier
\* boundaries, the boundary distance passed to the confidence calibration is
\* >= 0, so the reported confidence is never below 0.5 (and never above 1);
\* consequently the ambiguous outcome (tier none) arises only when the
\* distance is below a fixed cutoff determined by steepness and
\* confidence_threshold, and never when confidence_threshold <= 0.5.
C36_DistanceNonNegative ==
    \A rec \in classified :
        /\ DistanceOf(rec) >= 0
        /\ rec.result.confidence >= 50
        /\ rec.result.confidence <= 100
        /\ rec.result.tier = "" =>
               /\ ~Override(rec)
               /\ scoring_config.confidence_steepness * DistanceOf(rec)
                      < Cutoff(scoring_config.confidence_threshold)
               /\ scoring_config.confidence_threshold > 50
        /\ (/\ ~Override(rec)
            /\ scoring_config.confidence_steepness * DistanceOf(rec)
                   >= Cutoff(scoring_config.confidence_threshold)) =>
               rec.result.tier # ""

\* Under boundaries that are not in ascending order and a threshold of one
\* half, a score below the simple_medium boundary at a distance whose
\* confidence is below the default threshold: the tier is reported.
C36_Witness ==
    \E rec \in classified :
        /\ scoring_config.tier_boundaries.simple_medium
               > scoring_config.tier_boundaries.medium_complex
        /\ scoring_config.confidence_threshold = 50
        /\ ~Override(rec)
        /\ rec.result.score < scoring_config.tier_boundaries.simple_medium
        /\ rec.result.score > scoring_config.tier_boundaries.medium_complex
        /\ rec.result.confidence < ConfidenceThreshold
        /\ rec.result.tier = "SIMPLE"

\* The runs whose loop was left without exception.
LoopEnded(task) == task.pc \in {"publish", "done"} /\ ~task.raised

\* The run makes at most 15 provider.chat calls, one per iteration, and leaves
\* the loop at the first response without tool calls or after the 15th
\* iteration.
AtMostMaxChats(task) ==
    /\ task.chats <= 15
    /\ task.chats = task.iteration
    /\ (LoopEnded(task) /\ IsNone(task.answered)) => task.iteration = 15
    /\ ~IsNone(task.answered) => LoopEnded(task) \/ task.raised

\* Every run that was spawned ends.
RunsTerminate ==
    \A task_id \in 1..MaxSpawn :
        Len(tasks) >= task_id ~> (Len(tasks) >= task_id /\ tasks[task_id].pc = "done")

\* C37 as stated: a subagent run makes at most 15 provider.chat calls: the
\* loop ends at the first response without tool calls, whose content becomes
\* the final result, or after the 15th iteration, in which case the final
\* result is the fixed "Task completed but no final response was generated."
\* text; the run always terminates when every provider call and tool
\* execution returns.
C37_BoundedLoop ==
    /\ [](\A task_id \in 1..Len(tasks) :
              LET task == tasks[task_id]
              IN  /\ AtMostMaxChats(task)
                  /\ LoopEnded(task) =>
                         IF IsNone(task.answered)
                         THEN task.final_result = Some(NoFinalResponse)
                         ELSE task.final_result = Val(task.answered).content)
    /\ RunsTerminate

\* C37, amended: the content of the first response without tool calls becomes
\* the final result unless that content is None, in which case the final
\* result is the fixed text as after the 15th iteration.
C37_BoundedLoopNoneContent ==
    /\ [](\A task_id \in 1..Len(tasks) :
              LET task == tasks[task_id]
              IN  /\ AtMostMaxChats(task)
                  /\ LoopEnded(task) =>
                         IF IsNone(task.answered) \/ IsNone(Val(task.answered).content)
                         THEN task.final_result = Some(NoFinalResponse)
                         ELSE task.final_result = Val(task.answered).content)
    /\ RunsTerminate

\* A run that ended after 15 iterations of tool calls, with the fixed text
\* announced as its result.
C37_Witness ==
    \E task_id \in 1..Len(tasks) :
        /\ tasks[task_id].pc = "done"
        /\ tasks[task_id].chats = 15
        /\ IsNone(tasks[task_id].answered)
        /\ ~tasks[task_id].raised
        /\ \E i \in 1..Len(bus) :
               /\ bus[i].task_id = task_id
               /\ bus[i].status = "ok"
               /\ bus[i].result = NoFinalResponse

\* The announcements of a run on the bus.
AnnouncementsOf(task_id) == {i \in 1..Len(bus) : bus[i].task_id = task_id}

\* The spawned runs that have not finished.
Unfinished == {task_id \in 1..Len(tasks) : tasks[task_id].pc # "done"}

\* The finished runs whose done callback has not run yet.
CallbackDue == {task_id \in 1..Len(tasks) :
                   tasks[task_id].pc = "done" /\ task_id \in _running_tasks}

C39_FailedCallAnnouncedAsError ==
    \A task_id \in 1..Len(tasks) :
        tasks[task_id].llm_failed =>
            \A i \in AnnouncementsOf(task_id) :
                /\ bus[i].status = "error"
                /\ bus[i].status_text # "completed successfully"

=============================================================================
